---- MODULE Spec2Model ----
(***************************************************************************)
(* State-machine model of the survey-analysis pipeline:                    *)
(*   LLMClient.generate_response      (analysis/src/llm/client.py)         *)
(*   AuditLogger                      (analysis/src/validation/audit.py)   *)
(*   ResponseFeatureExtractor         (analysis/src/features/extractor.py) *)
(*   QuestionAnalyzer                 (analysis/src/features/analyzer.py)  *)
(*   CrossQuestionSynthesizer         (analysis/src/features/synthesizer.py)*)
(*   ProgramAnalyzer         (analysis/src/features/program_analyzer.py)   *)
(* The program is single threaded: a driver starts one operation at a      *)
(* time, the operation runs through its steps, calling the layer below it, *)
(* and the process may be interrupted between any two steps.  The caches   *)
(* are files and survive an interruption; everything else does not.        *)
(***************************************************************************)
EXTENDS Integers, Sequences, FiniteSets, TLC

VARIABLES
    clientOK,     \* LLMClient.client is not None (credentials configured)
    llmCache,     \* llm_cache/<key>.json : cache key -> stored response_data
    audit,        \* the audit ledger of the current session (jsonl lines)
    cpc,          \* position inside generate_response (with its retry loop)
    creq,         \* arguments of the running generate_response invocation
    attempt,      \* tenacity attempt number of the running invocation
    cpending,     \* remote response received and not yet cached
    cres,         \* what generate_response handed to its caller
    cCalls,       \* remote calls issued by the running generate_response invocation
    cFailed,      \* attempts of the running invocation that raised
    hitAtStart,   \* the client cache held the key of creq when the invocation began
    featCache,    \* features/responses/<question_id>/<key>.json
    epc,          \* position inside extract_features
    ereq,         \* arguments of the running extract_features call
    eres,         \* what extract_features handed to its caller
    estale,       \* the running call found a cached record that failed validation
    qCache,       \* features/questions/<question_id>_analysis.json
    apc,          \* position inside analyze_question
    areq,         \* index (in Questions) of the question being analysed
    aidx,         \* next response of the slice to extract
    afeatures,    \* features_list collected so far
    afailed,      \* extractions of the running analysis that gave no record
    ahit,         \* the running analyze_question found a cached analysis
    ares,         \* what analyze_question handed to its caller
    synCache,     \* features/themes/cross_question_synthesis.json
    spc,          \* position inside synthesize_insights
    sres,         \* what synthesize_insights handed to its caller
    dpc,          \* position inside run_deep_analysis
    dq,           \* index of the question the phase 1 loop is at
    danalyses,    \* question_analyses collected so far
    dres,         \* how run_deep_analysis ended
    lastExit,     \* how the previous process ended: "ended" or "killed"
    prev,         \* the last extract_features call the driver completed
    aggIn,        \* features_list handed to aggregate_themes
    aggOut,       \* what aggregate_themes gave for aggIn
    fnIn,         \* arguments handed to a function that is run on its own
    fnOut,        \* what the function gave for fnIn
    progCache,    \* features/programs/<program>_analysis.json
    ppc,          \* position inside analyze_all_programs
    pin,          \* all_responses handed to analyze_all_programs
    pidx,         \* index of the response, then of the program, the loops are at
    pwith,        \* responses_with_features collected so far
    panalyses,    \* program_analyses collected so far
    pres,         \* how analyze_all_programs ended
    pextracts,    \* extract_features calls of the running analyze_all_programs, by response id
    survey,       \* the responses the process loaded from the survey file (all_responses)
    raceFile,     \* the cache file of the key two concurrent processes both ask for
    rpc,          \* position of each of the two processes inside generate_response
    rgot,         \* content each of the two processes received from the remote service
    rattempt,     \* tenacity attempt number of each of the two processes
    rret,         \* content generate_response returned in each of the two processes
    top,          \* the operation the driver is running ("none" between operations)
    remoteCalls   \* remote calls issued since the running top-level operation began

clientVars == <<cpc, creq, attempt, cpending, cres, cCalls, cFailed, hitAtStart>>
extractVars == <<epc, ereq, eres, estale>>
\* what the layers above extract_features, and above generate_response, hold
programVars == <<progCache, ppc, pin, pidx, pwith, panalyses, pres, pextracts>>
raceVars == <<raceFile, rpc, rgot, rattempt, rret>>
pureVars == <<aggIn, aggOut, fnIn, fnOut, programVars, survey, raceVars>>
analyzeVars == <<apc, areq, aidx, afeatures, afailed, ahit, ares>>
synthVars == <<spc, sres>>
driverVars == <<dpc, dq, danalyses, dres>>
aboveSynth == <<driverVars, lastExit, prev, top, pureVars>>
aboveAnalyze == <<synCache, synthVars, aboveSynth>>
pipeVars == <<qCache, analyzeVars, synCache, synthVars, driverVars>>
aboveExtract == <<qCache, analyzeVars, aboveAnalyze>>
aboveClient == <<featCache, extractVars, aboveExtract>>
vars == <<clientOK, llmCache, audit, clientVars, remoteCalls, aboveClient>>

(***************************************************************************)
(* Bounds of the model (not program constants).                            *)
(***************************************************************************)
\* longest features_list handed to aggregate_themes on its own
MaxRecords == 3
\* longest ledger the writers of one audit session are followed to
MaxEntries == 4
\* largest number of question analyses handed to the synthesis on its own
MaxQuestions == 6
\* largest number of questions whose analyses are computed from features
MaxFeatureQuestions == 3
\* longest response list handed to analyze_all_programs
MaxProgramResponses == 2
\* longest list of freely chosen themes handed to
\* identify_contradictions_and_consensus
MaxThemes == 2
\* questions handed to analyze_sentiment_patterns
MaxSentimentQuestions == 3
\* longest theme label handed to _normalize_theme, in characters
MaxLabelLen == 3

(***************************************************************************)
(* Program constants.                                                      *)
(***************************************************************************)
\* Settings.llm_retry_attempts, the stop_after_attempt bound of the decorator
LlmRetryAttempts == 3
\* Settings.llm_temperature in tenths (0.3)
LlmTemperature == 3

\* Python None where a string is expected
NoneVal == "<None>"
\* Python None where a temperature (in tenths) is expected
NoTemperature == -1
\* self.model of LLMClient (deployment / model name)
Model == "gpt-4.1"

(***************************************************************************)
(* Message contents.  A content is the text of choices[0].message.content: *)
(* a body, possibly wrapped in a markdown code fence; the body names the   *)
(* JSON document the text spells (or that it is not JSON at all).          *)
(***************************************************************************)
\* "" no fence, "md_json" a fence opened by three backticks and json,
\* "md" a fence opened by three backticks
Fences == {"", "md_json", "md"}
NoneContent == [fence |-> "", body |-> NoneVal]
FeatureBodies == {"featA", "featB", "featDup"}
Bodies == FeatureBodies \cup {"insights", "notjson"}
Contents == [fence : Fences, body : Bodies]

\* LLMClient._clean_json_response: strip the surrounding code fence
clean_json_response(content) == [content EXCEPT !.fence = ""]

\* what the remote service may answer to one chat.completions.create call:
\* an exception (transport error, throttling), or a message whose content is
\* None or any text, with or without a usage block
RemoteAnswers ==
    { [ok |-> FALSE, content |-> NoneContent, usage |-> NoneVal] }
    \cup { [ok |-> TRUE, content |-> NoneContent, usage |-> "usage"] }
    \cup { [ok |-> TRUE, content |-> [fence |-> "", body |-> b], usage |-> "usage"]
           : b \in Bodies }
    \cup { [ok |-> TRUE, content |-> [fence |-> "md_json", body |-> "featA"],
            usage |-> NoneVal] }

(***************************************************************************)
(* AuditLogger                                                             *)
(***************************************************************************)
Entry(operation, detail) == [operation |-> operation, detail |-> detail]

\* a log_operation that opens the file for writing instead of appending
log_operation_Truncating(ledger, operation, detail) == <<Entry(operation, detail)>>

\* AuditLogger.log_operation: append one line to the ledger of the session
log_operation(ledger, operation, detail) == Append(ledger, Entry(operation, detail))

\* the parameters of AuditLogger.log_error: all four are required and the
\* method takes no **kwargs
LogErrorParams == {"operation", "error_type", "error_message", "context"}

\* a call log_error(**kw) binds its arguments iff kw names exactly the
\* parameters; otherwise Python raises TypeError before the body runs
LogErrorBinds(kw) == kw = LogErrorParams

\* AuditLogger._hash_data: the leading digits of the sha256 of the text (taken
\* to be collision free); a hash is not the text it was taken of
hash_data(data) == [sha256_of |-> data]

\* prompt[:200]: the leading characters of the prompt, verbatim (the whole
\* prompt when it is no longer than that)
prompt_preview(prompt) == [verbatim |-> prompt]

\* AuditLogger.log_llm_call: the data of an "llm_call" entry
LlmCallData(prompt, response, tokens_used) ==
    [prompt_hash |-> hash_data(prompt),
     response_hash |-> hash_data(response),
     tokens_used |-> tokens_used,
     prompt_preview |-> prompt_preview(prompt)]

\* AuditLogger.log_llm_call
log_llm_call(ledger, prompt, response, tokens_used) ==
    log_operation(ledger, "llm_call", LlmCallData(prompt, response, tokens_used))

\* the context dictionary of an error entry: the texts it holds
NoContext == {}

\* AuditLogger.log_error
log_error(ledger, kw, operation, context) ==
    IF LogErrorBinds(kw)
    THEN log_operation(ledger, "error",
                       [error_operation |-> operation, context |-> context])
    ELSE ledger

\* AuditLogger.log_warning
log_warning(ledger, operation) ==
    log_operation(ledger, "warning", [warning_operation |-> operation])

\* AuditLogger.close
close(ledger) == log_operation(ledger, "session_end", "")

(***************************************************************************)
(* LLMClient                                                               *)
(***************************************************************************)
\* temperature = temperature or settings.llm_temperature
EffectiveTemperature(temperature) ==
    IF temperature = NoTemperature \/ temperature = 0
    THEN LlmTemperature ELSE temperature

\* LLMClient._generate_cache_key: sha256 of the sorted JSON of the four fields
\* (the hash is taken to be collision free, so the key is the tuple itself)
generate_cache_key(prompt, instructions, temperature, model) ==
    [prompt |-> prompt,
     instructions |-> IF instructions = NoneVal THEN "" ELSE instructions,
     temperature |-> temperature,
     model |-> model]

\* the key generate_response computes for its arguments
KeyOf(req) ==
    generate_cache_key(req.prompt, req.instructions,
                       EffectiveTemperature(req.temperature), Model)

\* LLMResponse(content=..., ...) validates content: str
LLMResponseValid(content) == content # NoneContent

\* a prompt is the text built from these parts (the fixed wording is left out)
Prompt(kind, question, response_id, response, stats, themes) ==
    [kind |-> kind, question |-> question, response_id |-> response_id,
     response |-> response, stats |-> stats, themes |-> themes]

NoPrompt == Prompt("", "", "", "", <<>>, <<>>)

NoReq == [prompt |-> NoPrompt, instructions |-> NoneVal, temperature |-> NoTemperature,
          response_format |-> FALSE]
NoAnswer == [ok |-> FALSE, content |-> NoneContent, usage |-> NoneVal]
NoRes == [status |-> "none", content |-> NoneContent, tokens_used |-> NoneVal]

Returned(content, tokens) == [status |-> "returned", content |-> content, tokens_used |-> tokens]
Raised(exc) == [status |-> "raised:" \o exc, content |-> NoneContent, tokens_used |-> NoneVal]

\* the caller enters generate_response(req): the decorator starts attempt 1
ClientStart(req) ==
    /\ cpc' = "lookup"
    /\ creq' = req
    /\ attempt' = 1
    /\ cpending' = NoAnswer
    /\ cres' = NoRes
    /\ cCalls' = 0
    /\ cFailed' = 0
    /\ hitAtStart' = (KeyOf(req) \in DOMAIN llmCache)

\* the caller has consumed the outcome of generate_response
ClientIdle ==
    /\ cpc' = "idle"
    /\ creq' = NoReq
    /\ attempt' = 0
    /\ cpending' = NoAnswer
    /\ cres' = NoRes
    /\ cCalls' = 0
    /\ cFailed' = 0
    /\ hitAtStart' = FALSE

\* a retry decorator that allows one attempt more than the configured bound
AttemptFailed_OneMore ==
    /\ cFailed' = cFailed + 1
    /\ IF attempt <= LlmRetryAttempts
       THEN /\ attempt' = attempt + 1
            /\ cpc' = "lookup"
            /\ cres' = cres
       ELSE /\ attempt' = attempt
            /\ cpc' = "done"
            /\ cres' = Raised("RetryError")

\* the retry decorator after an attempt raised: stop_after_attempt(n) gives up
\* with RetryError once n attempts have been made, else the body runs again
AttemptFailed ==
    /\ cFailed' = cFailed + 1
    /\ IF attempt < LlmRetryAttempts
       THEN /\ attempt' = attempt + 1
            /\ cpc' = "lookup"
            /\ cres' = cres
       ELSE /\ attempt' = attempt
            /\ cpc' = "done"
            /\ cres' = Raised("RetryError")

\* generate_response, lines 252-266: compute the key, look the cache up and
\* return the cached response on a hit.  A client built without credentials
\* has no model attribute (lines 154-160): reading self.model for the key
\* (line 256) raises AttributeError outside the try block, into the retry
\* decorator
GR_Lookup ==
    /\ cpc = "lookup"
    /\ LET k == KeyOf(creq) IN
       IF ~clientOK
       THEN /\ AttemptFailed
            /\ audit' = audit
       ELSE IF k \in DOMAIN llmCache
       THEN /\ audit' = log_operation(audit, "llm_cache_hit", [cache_key |-> k])
            /\ IF LLMResponseValid(llmCache[k].content)
               THEN /\ cres' = Returned(llmCache[k].content, llmCache[k].tokens_used)
                    /\ cpc' = "done"
                    /\ UNCHANGED <<attempt, cFailed>>
               ELSE AttemptFailed
       ELSE /\ cpc' = "remote"
            /\ UNCHANGED <<audit, cres, attempt, cFailed>>
    /\ UNCHANGED <<clientOK, llmCache, creq, cpending, cCalls, hitAtStart, remoteCalls, aboveClient>>

\* generate_response, lines 272-321: one chat.completions.create call; the
\* content is cleaned when a response_format was given and content is truthy
GR_Remote(answers) ==
    /\ cpc = "remote"
    /\ clientOK
    /\ \E ans \in answers :
        /\ cCalls' = cCalls + 1
        /\ remoteCalls' = remoteCalls + 1
        /\ IF ans.ok
           THEN /\ cpending' =
                     IF creq.response_format /\ ans.content # NoneContent
                     THEN [ans EXCEPT !.content = clean_json_response(ans.content)]
                     ELSE ans
                /\ cpc' = "save"
                /\ UNCHANGED <<audit, attempt, cres, cFailed>>
           ELSE /\ audit' = log_error(audit,
                                {"operation", "error_type", "error_message", "context"},
                                "llm_generate_response",
                                {prompt_preview(creq.prompt)})
                /\ AttemptFailed
                /\ cpending' = cpending
    /\ UNCHANGED <<clientOK, llmCache, creq, hitAtStart, aboveClient>>

\* what _save_to_cache stores for the pending answer
StoredResponse(ans) == [content |-> ans.content, tokens_used |-> ans.usage]

\* LLMClient._save_to_cache
save_to_cache(cache, k, ans) == (k :> StoredResponse(ans)) @@ cache

\* generate_response, lines 323-364: cache the response, log the call, build
\* the LLMResponse (which rejects a None content: logged, re-raised, retried)
GR_Save ==
    /\ cpc = "save"
    /\ llmCache' = save_to_cache(llmCache, KeyOf(creq), cpending)
    /\ LET logged == log_llm_call(log_operation(audit, "llm_cache_save",
                                                [cache_key |-> KeyOf(creq)]),
                                  creq.prompt, cpending.content, cpending.usage) IN
       IF LLMResponseValid(cpending.content)
       THEN /\ audit' = logged
            /\ cres' = Returned(cpending.content, cpending.usage)
            /\ cpc' = "done"
            /\ UNCHANGED <<attempt, cFailed>>
       ELSE /\ audit' = log_error(logged,
                            {"operation", "error_type", "error_message", "context"},
                            "llm_generate_response", {prompt_preview(creq.prompt)})
            /\ AttemptFailed
    /\ UNCHANGED <<clientOK, creq, cpending, cCalls, hitAtStart, remoteCalls, aboveClient>>

(***************************************************************************)
(* ResponseFeatures and ResponseFeatureExtractor                           *)
(***************************************************************************)
\* the ResponseFeatures record spelled by each conforming JSON body
FeaturesOf(body) ==
    CASE body = "featA" ->
           [themes |-> <<"access">>, sentiment |-> "negative", urgency |-> "high",
            stakeholder_type |-> "artist", contains_actionable_feedback |-> TRUE]
      [] body = "featB" ->
           [themes |-> <<"Funding_Gap">>, sentiment |-> "positive", urgency |-> "low",
            stakeholder_type |-> "resident", contains_actionable_feedback |-> FALSE]
      [] body = "featDup" ->
           [themes |-> <<"access", "access">>, sentiment |-> "neutral",
            urgency |-> "medium", stakeholder_type |-> "artist",
            contains_actionable_feedback |-> TRUE]

\* json.loads(content) succeeds: the text is a bare JSON document
JsonLoads(content) ==
    content # NoneContent /\ content.fence = "" /\ content.body # "notjson"

\* ResponseFeatures(**dict) validates: the document has the required fields
FeaturesValidate(content) == content.body \in FeatureBodies

\* ResponseFeatureExtractor._generate_cache_key
generate_feature_cache_key(response_text, question_text) ==
    [response |-> response_text, question |-> question_text, model |-> Model,
     extractor_version |-> "1.0"]

\* a cache that keeps one file per response_id
FeatureFile_PerResponse(req) ==
    [question_id |-> req.question_id,
     key |-> <<generate_feature_cache_key(req.response, req.question), req.response_id>>]

\* the cache file of a record: the cache is partitioned by question_id
FeatureFile(req) ==
    [question_id |-> req.question_id,
     key |-> generate_feature_cache_key(req.response, req.question)]

\* the keyword sets of the log_error calls of extract_features and of
\* _load_features_from_cache
KwCacheValidation == {"operation", "error_type", "error_message", "cache_key"}
KwNoClient == {"operation", "error_type", "error_message"}
KwParse == {"operation", "error_type", "error_message", "response_id"}
KwOther == {"operation", "error_type", "error_message", "response_id", "question_id"}

NoExtract == [response |-> "", question |-> "", response_id |-> "", question_id |-> ""]
NoFeat == [status |-> "none", features |-> NoneVal]
FeatReturned(f) == [status |-> "returned", features |-> f]
FeatRaised(exc) == [status |-> "raised:" \o exc, features |-> NoneVal]

\* the request extract_features sends to generate_response (lines 175-192)
ExtractRequest(req) ==
    [prompt |-> Prompt("extract", req.question, req.response_id, req.response, <<>>, <<>>),
     instructions |-> "extract_system_prompt",
     temperature |-> 3,
     response_format |-> TRUE]

ExtractStart(req) ==
    /\ epc' = "lookup"
    /\ ereq' = req
    /\ eres' = NoFeat
    /\ estale' = FALSE

ExtractIdle ==
    /\ epc' = "idle"
    /\ ereq' = NoExtract
    /\ eres' = NoFeat
    /\ estale' = FALSE

\* extract_features, lines 134-139, with _load_features_from_cache: a stored
\* record is validated again; a record that fails goes through log_error
E_Lookup ==
    /\ epc = "lookup"
    /\ LET file == FeatureFile(ereq) IN
       IF file \in DOMAIN featCache
       THEN LET hit == log_operation(audit, "feature_cache_hit", "") IN
            IF featCache[file].valid
            THEN /\ audit' = hit
                 /\ eres' = FeatReturned(featCache[file].features)
                 /\ epc' = "done"
                 /\ estale' = estale
            ELSE /\ estale' = TRUE
                 /\ IF LogErrorBinds(KwCacheValidation)
                    THEN /\ audit' = log_error(hit, KwCacheValidation,
                                         "feature_cache_validation_error", NoContext)
                         /\ epc' = "miss"
                         /\ eres' = eres
                    ELSE /\ audit' = hit
                         /\ eres' = FeatRaised("TypeError")
                         /\ epc' = "done"
       ELSE /\ epc' = "miss"
            /\ UNCHANGED <<audit, eres, estale>>
    /\ UNCHANGED <<clientOK, llmCache, clientVars, featCache, ereq, remoteCalls, aboveExtract>>

\* extract_features, lines 141-192: without a client object log an error and
\* return None, else build the prompts and call generate_response
E_Miss ==
    /\ epc = "miss"
    /\ IF ~clientOK
       THEN /\ audit' = log_error(audit, KwNoClient, "extract_features", NoContext)
            /\ eres' = IF LogErrorBinds(KwNoClient)
                       THEN FeatReturned(NoneVal) ELSE FeatRaised("TypeError")
            /\ epc' = "done"
            /\ UNCHANGED clientVars
       ELSE /\ ClientStart(ExtractRequest(ereq))
            /\ epc' = "wait"
            /\ UNCHANGED <<audit, eres>>
    /\ UNCHANGED <<clientOK, llmCache, featCache, ereq, estale, remoteCalls, aboveExtract>>

\* a _save_features_to_cache that writes no file
save_features_to_cache_NoWrite(cache, file, body) == cache

\* ResponseFeatureExtractor._save_features_to_cache
save_features_to_cache(cache, file, body) ==
    (file :> [valid |-> TRUE, features |-> body]) @@ cache

\* the except clause that handles what the try block of extract_features
\* raised, as (keywords of its log_error call, operation it logs)
ExtractHandler(res) ==
    IF res.status # "returned" THEN <<KwOther, "feature_extraction_error">>
    ELSE IF ~JsonLoads(res.content) THEN <<KwParse, "feature_extraction_json_error">>
    ELSE <<KwParse, "feature_extraction_validation_error">>

\* extract_features, lines 194-240: parse and validate the content, cache and
\* return the record; a failure is logged by the matching except clause,
\* which then returns None
E_Finish ==
    /\ epc = "wait"
    /\ cpc = "done"
    /\ IF cres.status = "returned" /\ JsonLoads(cres.content) /\ FeaturesValidate(cres.content)
       THEN /\ featCache' = save_features_to_cache(featCache, FeatureFile(ereq),
                                                   cres.content.body)
            /\ audit' = log_operation(log_operation(audit, "feature_cache_save", ""),
                                      "feature_extraction_success", cres.tokens_used)
            /\ eres' = FeatReturned(cres.content.body)
       ELSE LET h == ExtractHandler(cres) IN
            /\ featCache' = featCache
            /\ audit' = log_error(audit, h[1], h[2], NoContext)
            /\ eres' = IF LogErrorBinds(h[1])
                       THEN FeatReturned(NoneVal) ELSE FeatRaised("TypeError")
    /\ epc' = "done"
    /\ ClientIdle
    /\ UNCHANGED <<clientOK, llmCache, ereq, estale, remoteCalls, aboveExtract>>

(***************************************************************************)
(* QuestionAnalyzer.aggregate_themes                                       *)
(* Numbers the code keeps as floats are kept as exact fractions [num, den].*)
(***************************************************************************)
Sentiments == {"positive", "negative", "neutral", "mixed"}
\* the members of StakeholderType the records of the model use
Stakeholders == {"artist", "resident"}

\* urgency_scores of aggregate_themes, doubled: high 1.0, medium 0.5, low 0.0
UrgencyScore2(u) == CASE u = "high" -> 2 [] u = "medium" -> 1 [] u = "low" -> 0

RECURSIVE ThemeOccurrences(_, _)
\* the (theme, record) pairs the two nested loops of lines 126-127 visit, in
\* order: one pair per element of each themes list
ThemeOccurrences(features_list, i) ==
    IF i > Len(features_list) THEN <<>>
    ELSE [j \in 1..Len(features_list[i].themes) |->
             [theme |-> features_list[i].themes[j], from |-> i]]
         \o ThemeOccurrences(features_list, i + 1)

\* theme_counter[theme] after the loops: one increment per visited pair
CounterOf(occ, theme) == Cardinality({k \in DOMAIN occ : occ[k].theme = theme})

RECURSIVE FirstSeen(_, _)
\* the keys of theme_counter in insertion order
FirstSeen(occ, seen) ==
    IF occ = <<>> THEN <<>>
    ELSE IF Head(occ).theme \in seen THEN FirstSeen(Tail(occ), seen)
    ELSE <<Head(occ).theme>> \o FirstSeen(Tail(occ), seen \cup {Head(occ).theme})

RECURSIVE InsertByCount(_, _, _)
\* insert theme t behind every theme of s whose count is at least that of t
InsertByCount(s, t, occ) ==
    IF s = <<>> THEN <<t>>
    ELSE IF CounterOf(occ, Head(s)) >= CounterOf(occ, t)
         THEN <<Head(s)>> \o InsertByCount(Tail(s), t, occ)
         ELSE <<t>> \o s

RECURSIVE MostCommonFrom(_, _, _)
MostCommonFrom(keys, sorted, occ) ==
    IF keys = <<>> THEN sorted
    ELSE MostCommonFrom(Tail(keys), InsertByCount(sorted, Head(keys), occ), occ)

\* Counter.most_common(): the keys by descending count, ties in insertion order
most_common(occ) == MostCommonFrom(FirstSeen(occ, {}), <<>>, occ)

\* a defaultdict(int) as a dict: only the keys that were incremented
CountDict(keys, occ, theme, features_list, field) ==
    LET n(v) == Cardinality({k \in DOMAIN occ :
                   occ[k].theme = theme /\ features_list[occ[k].from][field] = v})
    IN [v \in {w \in keys : n(w) > 0} |-> n(v)]

RECURSIVE SumUrgency2(_, _, _)
SumUrgency2(occ, theme, features_list) ==
    IF occ = <<>> THEN 0
    ELSE (IF Head(occ).theme = theme
          THEN UrgencyScore2(features_list[Head(occ).from].urgency) ELSE 0)
         + SumUrgency2(Tail(occ), theme, features_list)

\* the QuestionTheme built at lines 156-164
QuestionThemeOf(theme, occ, features_list) ==
    LET count == CounterOf(occ, theme)
        total_responses == Len(features_list)
    IN [theme |-> theme,
        count |-> count,
        percentage |-> [num |-> count * 100, den |-> total_responses],
        sentiment_distribution |->
            CountDict(Sentiments, occ, theme, features_list, "sentiment"),
        urgency_score |-> [num |-> SumUrgency2(occ, theme, features_list),
                           den |-> 2 * count],
        stakeholder_breakdown |->
            CountDict(Stakeholders, occ, theme, features_list, "stakeholder_type")]

\* the Field constraints of QuestionTheme: count >= 0, 0 <= percentage <= 100,
\* 0 <= urgency_score <= 1
QuestionThemeValid(qt) ==
    /\ qt.count >= 0
    /\ qt.percentage.num >= 0
    /\ qt.percentage.num <= 100 * qt.percentage.den
    /\ qt.urgency_score.num >= 0
    /\ qt.urgency_score.num <= qt.urgency_score.den

\* QuestionAnalyzer.aggregate_themes: the QuestionTheme list by descending
\* count, or the ValidationError of the first QuestionTheme that is rejected
aggregate_themes(features_list) ==
    LET occ == ThemeOccurrences(features_list, 1)
        order == most_common(occ)
        themes == [i \in 1..Len(order) |-> QuestionThemeOf(order[i], occ, features_list)]
    IN IF \E i \in 1..Len(order) : ~QuestionThemeValid(themes[i])
       THEN [raised |-> TRUE, themes |-> <<>>]
       ELSE [raised |-> FALSE, themes |-> themes]

(***************************************************************************)
(* QuestionAnalyzer                                                        *)
(***************************************************************************)
\* the survey the pipeline runs on: the questions, and all_responses
Questions ==
    <<[id |-> "q1", text |-> "Q1"], [id |-> "q2", text |-> "Q2"]>>
AllResponses ==
    <<[id |-> "r1", text |-> "t1", question_id |-> "q1"],
      [id |-> "r2", text |-> "t2", question_id |-> "q1"],
      [id |-> "r3", text |-> "t3", question_id |-> "q2"]>>

RECURSIVE SelectSeq2(_, _)
\* the list comprehension of load_question_responses: the responses of the
\* question, in order (every response of the survey has text)
SelectSeq2(responses, question_id) ==
    IF responses = <<>> THEN <<>>
    ELSE (IF Head(responses).question_id = question_id THEN <<Head(responses)>> ELSE <<>>)
         \o SelectSeq2(Tail(responses), question_id)

\* QuestionAnalyzer.load_question_responses, on the responses the process
\* loaded
load_question_responses(question_id) == SelectSeq2(survey, question_id)

\* the arguments extract_all_features passes for one response (lines 94-99)
ExtractArgs(response, question_text) ==
    [response |-> response.text, question |-> question_text,
     response_id |-> response.id, question_id |-> response.question_id]

\* a plain defaultdict(int) over one field of the records of features_list
Distribution(keys, features_list, field) ==
    LET n(v) == Cardinality({i \in DOMAIN features_list : features_list[i][field] = v})
    IN [v \in {w \in keys : n(w) > 0} |-> n(v)]

\* dict.get(key, 0)
GetOr0(dict, key) == IF key \in DOMAIN dict THEN dict[key] ELSE 0

RECURSIVE SumDict(_, _)
SumDict(dict, keys) ==
    IF keys = {} THEN 0
    ELSE LET k == CHOOSE x \in keys : TRUE IN dict[k] + SumDict(dict, keys \ {k})

\* seq[:n]
Prefix(seq, n) == SubSeq(seq, 1, IF Len(seq) < n THEN Len(seq) ELSE n)

RECURSIVE Contradictions_AtLeast(_)
\* a contradiction test that takes shares of 30% and more
Contradictions_AtLeast(themes) ==
    IF themes = <<>> THEN <<>>
    ELSE LET d == Head(themes).sentiment_distribution
             total == SumDict(d, DOMAIN d)
             pos == GetOr0(d, "positive")
             neg == GetOr0(d, "negative")
         IN (IF total >= 10 /\ pos * 100 >= 30 * total /\ neg * 100 >= 30 * total
             THEN <<Head(themes).theme>> ELSE <<>>)
            \o Contradictions_AtLeast(Tail(themes))

RECURSIVE Contradictions(_)
\* identify_contradictions_and_consensus, first list: themes with at least
\* 10 mentions whose positive and negative shares both exceed 30%
Contradictions(themes) ==
    IF themes = <<>> THEN <<>>
    ELSE LET d == Head(themes).sentiment_distribution
             total == SumDict(d, DOMAIN d)
             pos == GetOr0(d, "positive")
             neg == GetOr0(d, "negative")
         IN (IF total >= 10 /\ pos * 100 > 30 * total /\ neg * 100 > 30 * total
             THEN <<Head(themes).theme>> ELSE <<>>)
            \o Contradictions(Tail(themes))

RECURSIVE Consensus(_)
\* identify_contradictions_and_consensus, second list: themes with at least
\* 10 mentions that are no contradiction and have one share above 70%
Consensus(themes) ==
    IF themes = <<>> THEN <<>>
    ELSE LET d == Head(themes).sentiment_distribution
             total == SumDict(d, DOMAIN d)
             pos == GetOr0(d, "positive")
             neg == GetOr0(d, "negative")
         IN (IF /\ total >= 10
                /\ ~(pos * 100 > 30 * total /\ neg * 100 > 30 * total)
                /\ (pos * 100 > 70 * total \/ neg * 100 > 70 * total)
             THEN <<Head(themes).theme>> ELSE <<>>)
            \o Consensus(Tail(themes))

\* the request of generate_insights_and_recommendations (lines 232-283): the
\* prompt carries the question, three counts and the top 15 themes
InsightsRequest(question_text, themes, features_list) ==
    [prompt |->
        Prompt("insights", question_text, "", "",
               <<Len(features_list),
                 Cardinality({i \in DOMAIN features_list :
                                features_list[i].urgency = "high"}),
                 Cardinality({i \in DOMAIN features_list :
                                features_list[i].contains_actionable_feedback})>>,
               [i \in 1..Len(Prefix(themes, 15)) |->
                   [theme |-> themes[i].theme, count |-> themes[i].count,
                    percentage |-> themes[i].percentage,
                    urgency_score |-> themes[i].urgency_score]]),
     instructions |-> "insights_system_prompt",
     temperature |-> 4,
     response_format |-> FALSE]

\* result.get('key_insights', []) and result.get('recommendations', []) of
\* the JSON object the body spells
InsightsOf(content) ==
    IF content.body = "insights"
    THEN [key_insights |-> <<"insight">>, recommendations |-> <<"recommendation">>]
    ELSE [key_insights |-> <<>>, recommendations |-> <<>>]

NoInsights == [key_insights |-> <<>>, recommendations |-> <<>>]

\* a QuestionAnalysis that keeps the most frequent theme only
QuestionAnalysisOf_TopTheme(question, features_list, themes, generated) ==
    [question_id |-> question.id,
     question_text |-> question.text,
     response_count |-> Len(features_list),
     dominant_themes |-> Prefix(themes, 1),
     sentiment_distribution |-> Distribution(Sentiments, features_list, "sentiment"),
     urgency_distribution |->
         Distribution({"high", "medium", "low"}, features_list, "urgency"),
     stakeholder_distribution |->
         Distribution(Stakeholders, features_list, "stakeholder_type"),
     key_insights |-> generated.key_insights,
     recommendations |-> generated.recommendations,
     contradictions |-> Contradictions(Prefix(themes, 10)),
     consensus_points |-> Consensus(Prefix(themes, 10))]

\* the QuestionAnalysis built at lines 361-373
QuestionAnalysisOf(question, features_list, themes, generated) ==
    [question_id |-> question.id,
     question_text |-> question.text,
     response_count |-> Len(features_list),
     dominant_themes |-> Prefix(themes, 20),
     sentiment_distribution |-> Distribution(Sentiments, features_list, "sentiment"),
     urgency_distribution |->
         Distribution({"high", "medium", "low"}, features_list, "urgency"),
     stakeholder_distribution |->
         Distribution(Stakeholders, features_list, "stakeholder_type"),
     key_insights |-> generated.key_insights,
     recommendations |-> generated.recommendations,
     contradictions |-> Contradictions(Prefix(themes, 10)),
     consensus_points |-> Consensus(Prefix(themes, 10))]

NoAnalysis == [question_id |-> NoneVal]
NoARes == [status |-> "none", analysis |-> NoAnalysis]
AReturned(a) == [status |-> "returned", analysis |-> a]
ARaised(exc) == [status |-> "raised:" \o exc, analysis |-> NoAnalysis]

\* the features_list as records
FeatureRecords(bodies) == [i \in DOMAIN bodies |-> FeaturesOf(bodies[i])]

AnalyzeStart(q) ==
    /\ apc' = "lookup"
    /\ areq' = q
    /\ aidx' = 1
    /\ afeatures' = <<>>
    /\ afailed' = 0
    /\ ahit' = FALSE
    /\ ares' = NoARes

AnalyzeIdle ==
    /\ apc' = "idle"
    /\ areq' = 0
    /\ aidx' = 0
    /\ afeatures' = <<>>
    /\ afailed' = 0
    /\ ahit' = FALSE
    /\ ares' = NoARes

\* an analyze_question that does not look for a cached analysis
A_Lookup_NoCache ==
    /\ apc = "lookup"
    /\ LET qid == Questions[areq].id IN
       /\ audit' = log_operation(audit, "load_question_responses", qid)
       /\ IF load_question_responses(qid) = <<>>
          THEN /\ ares' = AReturned(NoAnalysis)
               /\ apc' = "done"
          ELSE /\ apc' = "extract"
               /\ ares' = ares
       /\ ahit' = ahit
    /\ UNCHANGED <<clientOK, llmCache, clientVars, remoteCalls, featCache, extractVars,
                   qCache, areq, aidx, afeatures, afailed, aboveAnalyze>>

\* analyze_question, lines 314-330: a cached analysis is returned as it is;
\* otherwise the slice of the question is loaded
A_Lookup ==
    /\ apc = "lookup"
    /\ LET qid == Questions[areq].id IN
       IF qid \in DOMAIN qCache
       THEN /\ ares' = AReturned(qCache[qid])
            /\ ahit' = TRUE
            /\ apc' = "done"
            /\ audit' = audit
       ELSE /\ audit' = log_operation(audit, "load_question_responses", qid)
            /\ ahit' = ahit
            /\ IF load_question_responses(qid) = <<>>
               THEN /\ ares' = AReturned(NoAnalysis)
                    /\ apc' = "done"
               ELSE /\ apc' = "extract"
                    /\ ares' = ares
    /\ UNCHANGED <<clientOK, llmCache, clientVars, remoteCalls, featCache, extractVars,
                   qCache, areq, aidx, afeatures, afailed, aboveAnalyze>>

\* extract_all_features, lines 93-99: the next response goes to extract_features
A_Extract ==
    /\ apc = "extract"
    /\ epc = "idle"
    /\ LET slice == load_question_responses(Questions[areq].id) IN
       ExtractStart(ExtractArgs(slice[aidx], Questions[areq].text))
    /\ apc' = "wait"
    /\ UNCHANGED <<clientOK, llmCache, audit, clientVars, remoteCalls, featCache, qCache,
                   areq, aidx, afeatures, afailed, ahit, ares, aboveAnalyze>>

\* extract_all_features, lines 101-107: a record is appended, None is skipped,
\* an exception of extract_features leaves analyze_question
A_Extracted ==
    /\ apc = "wait"
    /\ epc = "done"
    /\ LET slice == load_question_responses(Questions[areq].id) IN
       IF eres.status # "returned"
       THEN /\ ares' = ARaised("TypeError")
            /\ apc' = "done"
            /\ afailed' = afailed + 1
            /\ UNCHANGED <<aidx, afeatures>>
       ELSE /\ afeatures' = IF eres.features # NoneVal
                            THEN Append(afeatures, eres.features) ELSE afeatures
            /\ afailed' = IF eres.features # NoneVal THEN afailed ELSE afailed + 1
            /\ aidx' = aidx + 1
            /\ apc' = IF aidx + 1 > Len(slice) THEN "aggregate" ELSE "extract"
            /\ ares' = ares
    /\ ExtractIdle
    /\ UNCHANGED <<clientOK, llmCache, audit, clientVars, remoteCalls, featCache, qCache,
                   areq, ahit, aboveAnalyze>>

\* an analyze_question that returns without writing its cache file
save_analysis_NoWrite(cache, question_id, analysis) == cache

\* the cache file analyze_question writes (lines 375-377)
save_analysis(cache, question_id, analysis) == (question_id :> analysis) @@ cache

\* analyze_question, lines 360-390: build the analysis, write it to the cache,
\* log the completion and return it
Finalize(ledger, themes, generated) ==
    LET analysis == QuestionAnalysisOf(Questions[areq], FeatureRecords(afeatures),
                                       themes, generated)
    IN /\ qCache' = save_analysis(qCache, Questions[areq].id, analysis)
       /\ audit' = log_operation(ledger, "question_analysis_complete", Questions[areq].id)
       /\ ares' = AReturned(analysis)
       /\ apc' = "done"

\* analyze_question, lines 335-358: without records return None; aggregate the
\* themes (a rejected QuestionTheme raises), then generate the insights: with
\* no client or no theme the lists are empty, else one client call is made
A_Aggregate ==
    /\ apc = "aggregate"
    /\ LET features_list == FeatureRecords(afeatures)
           agg == aggregate_themes(features_list)
       IN IF afeatures = <<>>
          THEN /\ ares' = AReturned(NoAnalysis)
               /\ apc' = "done"
               /\ UNCHANGED <<audit, qCache, clientVars>>
          ELSE IF agg.raised
          THEN /\ ares' = ARaised("ValidationError")
               /\ apc' = "done"
               /\ UNCHANGED <<audit, qCache, clientVars>>
          ELSE IF ~clientOK \/ agg.themes = <<>>
          THEN /\ Finalize(audit, agg.themes, NoInsights)
               /\ UNCHANGED clientVars
          ELSE /\ ClientStart(InsightsRequest(Questions[areq].text, agg.themes,
                                              features_list))
               /\ apc' = "insights"
               /\ UNCHANGED <<audit, qCache, ares>>
    /\ UNCHANGED <<clientOK, llmCache, remoteCalls, featCache, extractVars,
                   areq, aidx, afeatures, afailed, ahit, aboveAnalyze>>

\* generate_insights_and_recommendations, lines 285-299, and the rest of
\* analyze_question: a failed call or unparsable content goes through
\* log_error and gives empty lists
A_Insights ==
    /\ apc = "insights"
    /\ cpc = "done"
    /\ LET agg == aggregate_themes(FeatureRecords(afeatures)) IN
       IF cres.status = "returned" /\ JsonLoads(cres.content)
       THEN Finalize(audit, agg.themes, InsightsOf(cres.content))
       ELSE IF LogErrorBinds(KwNoClient)
       THEN Finalize(log_error(audit, KwNoClient, "generate_insights", NoContext),
                     agg.themes, NoInsights)
       ELSE /\ ares' = ARaised("TypeError")
            /\ apc' = "done"
            /\ UNCHANGED <<audit, qCache>>
    /\ ClientIdle
    /\ UNCHANGED <<clientOK, llmCache, remoteCalls, featCache, extractVars,
                   areq, aidx, afeatures, afailed, ahit, aboveAnalyze>>

(***************************************************************************)
(* CrossQuestionSynthesizer                                                *)
(***************************************************************************)
\* _normalize_theme on the theme labels that occur: lower(), strip(), then
\* '-' and '_' become spaces
normalize_theme(theme) ==
    CASE theme = "Funding_Gap" -> "funding gap"
      [] theme = "funding_shortage" -> "funding shortage"
      [] theme = "funding-gap" -> "funding gap"
      [] theme = " Access " -> "access"
      [] OTHER -> theme

RECURSIVE ThemeEntries(_)
\* the (analysis, theme) pairs the loops of lines 65-66 visit, in order, each
\* under its normalised key
ThemeEntries(analyses) ==
    IF analyses = <<>> THEN <<>>
    ELSE LET a == Head(analyses) IN
         [j \in 1..Len(a.dominant_themes) |->
             [theme |-> normalize_theme(a.dominant_themes[j].theme),
              question_id |-> a.question_id,
              count |-> a.dominant_themes[j].count,
              urgency_score |-> a.dominant_themes[j].urgency_score,
              sentiment_distribution |-> a.dominant_themes[j].sentiment_distribution]]
         \o ThemeEntries(Tail(analyses))

RECURSIVE SumCount(_, _)
\* theme_total_mentions[key]
SumCount(entries, key) ==
    IF entries = <<>> THEN 0
    ELSE (IF Head(entries).theme = key THEN Head(entries).count ELSE 0)
         + SumCount(Tail(entries), key)

(***************************************************************************)
(* Python floats (IEEE 754 binary64).  A float is a significand of 53      *)
(* bits, most significant first, and the exponent e of its last bit, so    *)
(* its value is the significand times 2^e; zero has the empty significand. *)
(* Every operation rounds its exact result to nearest, ties to even.       *)
(***************************************************************************)
SignificandBits == 53

FloatZero == [m |-> <<>>, e |-> 0]

\* a natural number as bits, most significant first
RECURSIVE IntBits(_)
IntBits(n) == IF n = 0 THEN <<>> ELSE IntBits(n \div 2) \o <<n % 2>>

Zeros(n) == IF n <= 0 THEN <<>> ELSE [i \in 1..n |-> 0]

StripZeros(bits) ==
    IF \A i \in DOMAIN bits : bits[i] = 0 THEN <<>>
    ELSE SubSeq(bits, CHOOSE i \in DOMAIN bits :
                         bits[i] = 1 /\ \A j \in 1..(i - 1) : bits[j] = 0,
                Len(bits))

Front(bits) == SubSeq(bits, 1, Len(bits) - 1)

\* Long bit strings are added, subtracted, multiplied and divided in limbs of
\* 16 bits, most significant first, so that every intermediate value fits a
\* machine integer.
\* the value of the 16 bits from place from
LimbOf(bits, from) ==
    LET Four(at) == 8 * bits[at] + 4 * bits[at + 1] + 2 * bits[at + 2] + bits[at + 3]
    IN  4096 * Four(from) + 256 * Four(from + 4) + 16 * Four(from + 8) + Four(from + 12)

ToLimbs(bits) ==
    LET count == (Len(bits) + 15) \div 16
        padded == Zeros(16 * count - Len(bits)) \o bits
    IN  IF count = 0 THEN <<>> ELSE [j \in 1..count |-> LimbOf(padded, 16 * (j - 1) + 1)]

ToBits(limbs) ==
    IF limbs = <<>> THEN <<>>
    ELSE [i \in 1..(16 * Len(limbs)) |->
            (limbs[((i - 1) \div 16) + 1] \div 2^(15 - ((i - 1) % 16))) % 2]

RECURSIVE AddLimbs(_, _, _)
AddLimbs(a, b, carry) ==
    IF a = <<>> /\ b = <<>> THEN (IF carry = 0 THEN <<>> ELSE <<carry>>)
    ELSE LET sum == (IF a = <<>> THEN 0 ELSE a[Len(a)])
                    + (IF b = <<>> THEN 0 ELSE b[Len(b)]) + carry
         IN  AddLimbs(IF a = <<>> THEN a ELSE Front(a),
                      IF b = <<>> THEN b ELSE Front(b),
                      IF sum < 2^16 THEN 0 ELSE 1)
             \o <<sum % 2^16>>

\* a - b for a >= b
RECURSIVE SubLimbs(_, _, _)
SubLimbs(a, b, borrow) ==
    IF a = <<>> THEN <<>>
    ELSE LET d == a[Len(a)] - (IF b = <<>> THEN 0 ELSE b[Len(b)]) - borrow
         IN  SubLimbs(Front(a), IF b = <<>> THEN b ELSE Front(b), IF d < 0 THEN 1 ELSE 0)
             \o <<IF d < 0 THEN d + 2^16 ELSE d>>

RECURSIVE TimesLimbs(_, _, _)
TimesLimbs(a, n, carry) ==
    IF a = <<>> THEN (IF carry = 0 THEN <<>> ELSE <<carry>>)
    ELSE LET product == a[Len(a)] * n + carry
         IN  TimesLimbs(Front(a), n, product \div 2^16) \o <<product % 2^16>>

\* the quotient of the limbs by n, carried on for more limbs behind the
\* point, and a last limb that tells whether anything is left behind them
RECURSIVE DivLimbs(_, _, _, _)
DivLimbs(a, n, rem, more) ==
    IF a = <<>> /\ more = 0 THEN <<IF rem = 0 THEN 0 ELSE 1>>
    ELSE LET cur == rem * 2^16 + (IF a = <<>> THEN 0 ELSE Head(a))
         IN  <<cur \div n>>
             \o DivLimbs(IF a = <<>> THEN a ELSE Tail(a), n, cur % n,
                         IF a = <<>> THEN more - 1 ELSE more)

AddBits(a, b) ==
    IF a = <<>> THEN b
    ELSE IF b = <<>> THEN a
    ELSE ToBits(AddLimbs(ToLimbs(a), ToLimbs(b), 0))

\* a - b for a >= b
SubBits(a, b) ==
    IF a = <<>> \/ b = <<>> THEN a
    ELSE ToBits(SubLimbs(ToLimbs(a), ToLimbs(b), 0))

TimesBits(bits, n) ==
    IF bits = <<>> THEN <<>> ELSE ToBits(TimesLimbs(ToLimbs(bits), n, 0))

\* the bits of bits / n: those of the quotient, 16 * more behind the point,
\* and 16 that tell whether anything is left behind them
DivBits(bits, n, more) ==
    IF bits = <<>> THEN <<>> ELSE ToBits(DivLimbs(ToLimbs(bits), n, 0, more))

\* a > b for bit strings
GreaterBits(a, b) ==
    LET x == StripZeros(a)
        y == StripZeros(b)
    IN  \/ Len(x) > Len(y)
        \/ /\ Len(x) = Len(y)
           /\ \E k \in 1..Len(x) :
                /\ x[k] > y[k]
                /\ \A j \in 1..(k - 1) : x[j] = y[j]

\* the float nearest to bits * 2^e, ties to even
RoundBits(bits, e) ==
    LET b == StripZeros(bits)
        extra == Len(b) - SignificandBits
    IN  IF bits = <<>> \/ b = <<>> THEN FloatZero
        ELSE IF extra <= 0 THEN [m |-> b \o Zeros(0 - extra), e |-> e + extra]
        ELSE LET kept == SubSeq(b, 1, SignificandBits)
                 rest == SubSeq(b, SignificandBits + 1, Len(b))
                 up == /\ rest[1] = 1
                       /\ \/ kept[SignificandBits] = 1
                          \/ \E k \in 2..Len(rest) : rest[k] = 1
                 m == IF up THEN StripZeros(AddBits(kept, <<1>>)) ELSE kept
             IN  IF Len(m) > SignificandBits
                 THEN [m |-> Front(m), e |-> e + extra + 1]
                 ELSE [m |-> m, e |-> e + extra]

\* the float of an int
FloatOf(n) == RoundBits(IntBits(n), 0)

\* count / total of two ints: the quotient, correctly rounded
TrueDiv(count, total) ==
    IF count = 0 THEN FloatZero ELSE RoundBits(DivBits(IntBits(count), total, 5), -96)

\* x * n for a float and an int
FloatTimes(x, n) ==
    IF x.m = <<>> THEN FloatZero ELSE RoundBits(TimesBits(x.m, n), x.e)

\* the significands of two floats over their smaller exponent
Aligned(x, y) ==
    LET e == IF x.m = <<>> THEN y.e ELSE IF y.m = <<>> THEN x.e
             ELSE IF x.e < y.e THEN x.e ELSE y.e
    IN  [a |-> IF x.m = <<>> THEN <<>> ELSE x.m \o Zeros(x.e - e),
         b |-> IF y.m = <<>> THEN <<>> ELSE y.m \o Zeros(y.e - e),
         e |-> e]

FloatPlus(x, y) ==
    IF x.m = <<>> THEN y
    ELSE IF y.m = <<>> THEN x
    ELSE LET al == Aligned(x, y) IN RoundBits(AddBits(al.a, al.b), al.e)

\* x - y for x >= y
FloatMinus(x, y) ==
    IF x.m = <<>> \/ y.m = <<>> THEN x
    ELSE LET al == Aligned(x, y) IN RoundBits(SubBits(al.a, al.b), al.e)

\* x > y for floats that are not negative
FloatGreater(x, y) ==
    IF x.m = <<>> THEN FALSE
    ELSE IF y.m = <<>> THEN TRUE
    ELSE LET al == Aligned(x, y) IN GreaterBits(al.a, al.b)

\* min(x, y): y when it is smaller, else x
FloatMin(x, y) == IF FloatGreater(x, y) THEN y ELSE x

\* the exact sum of the floats from place lo to place hi, as a bit string
\* and the exponent of its last bit
RECURSIVE ExactSum(_, _, _)
ExactSum(floats, lo, hi) ==
    IF lo > hi THEN FloatZero
    ELSE IF lo = hi THEN floats[lo]
    ELSE LET lower == ExactSum(floats, lo, (lo + hi) \div 2)
             upper == ExactSum(floats, (lo + hi) \div 2 + 1, hi)
             al == Aligned(lower, upper)
         IN  IF lower.m = <<>> THEN upper
             ELSE IF upper.m = <<>> THEN lower
             ELSE [m |-> StripZeros(AddBits(al.a, al.b)), e |-> al.e]

\* statistics.mean of floats: the exact mean, rounded once
MeanFloat(floats) ==
    LET total == ExactSum(floats, 1, Len(floats))
    IN  IF total.m = <<>> THEN FloatZero
        ELSE RoundBits(DivBits(total.m, Len(floats), 1), total.e - 32)

RECURSIVE Gcd(_, _)
Gcd(a, b) == IF b = 0 THEN a ELSE Gcd(b, a % b)

\* a fraction in lowest terms (the value of the float is the same)
Reduce(f) ==
    LET g == Gcd(f.num, f.den) IN [num |-> f.num \div g, den |-> f.den \div g]

RECURSIVE SumFrac(_, _)
\* the exact sum of theme_urgencies[key]
SumFrac(entries, key) ==
    IF entries = <<>> THEN [num |-> 0, den |-> 1]
    ELSE LET rest == SumFrac(Tail(entries), key)
             f == Head(entries).urgency_score
         IN IF Head(entries).theme = key
            THEN Reduce([num |-> f.num * rest.den + rest.num * f.den,
                         den |-> f.den * rest.den])
            ELSE rest

\* theme_sentiments[key] as a dict
SumSentiments(entries, key) ==
    LET n(v) == SumCount([k \in DOMAIN entries |->
                    [theme |-> entries[k].theme,
                     count |-> GetOr0(entries[k].sentiment_distribution, v)]], key)
    IN [v \in {w \in Sentiments : n(w) > 0} |-> n(v)]

\* a set of question ids that holds every id of the entries
QuestionsOf_All(entries, key) ==
    {entries[k].question_id : k \in DOMAIN entries}

\* set(theme_questions[key])
QuestionsOf(entries, key) ==
    {entries[k].question_id : k \in {i \in DOMAIN entries : entries[i].theme = key}}

RECURSIVE UrgencyScores(_, _)
\* theme_urgencies[key]
UrgencyScores(entries, key) ==
    IF entries = <<>> THEN <<>>
    ELSE (IF Head(entries).theme = key THEN <<Head(entries).urgency_score>> ELSE <<>>)
         \o UrgencyScores(Tail(entries), key)

\* the float of statistics.mean(theme_urgencies[key]): each urgency_score is
\* the float of its fraction, the mean is taken of the floats
AverageUrgency(urgency_scores) ==
    MeanFloat([i \in DOMAIN urgency_scores |->
                 TrueDiv(urgency_scores[i].num, urgency_scores[i].den)])

\* one value of recurring_themes (lines 82-89); average_urgency is kept as
\* the exact mean of the scores, next to the scores it is the mean of
RecurringOf(entries, key) ==
    LET n == Cardinality({k \in DOMAIN entries : entries[k].theme = key})
        sum == SumFrac(entries, key)
    IN [theme |-> key,
        question_count |-> Cardinality(QuestionsOf(entries, key)),
        total_mentions |-> SumCount(entries, key),
        question_ids |-> QuestionsOf(entries, key),
        average_urgency |-> Reduce([num |-> sum.num, den |-> sum.den * n]),
        urgency_scores |-> UrgencyScores(entries, key),
        sentiment_distribution |-> SumSentiments(entries, key)]

RECURSIVE InsertByMentions(_, _)
\* sorted(..., key=total_mentions, reverse=True) is stable: a value goes
\* behind every value with at least as many mentions
InsertByMentions(s, r) ==
    IF s = <<>> THEN <<r>>
    ELSE IF Head(s).total_mentions >= r.total_mentions
         THEN <<Head(s)>> \o InsertByMentions(Tail(s), r)
         ELSE <<r>> \o s

RECURSIVE SortRecurring_Three(_, _, _)
\* a filter that keeps the themes of at least three questions
SortRecurring_Three(keys, sorted, entries) ==
    IF keys = <<>> THEN sorted
    ELSE LET r == RecurringOf(entries, Head(keys)) IN
         SortRecurring_Three(Tail(keys),
                       IF r.question_count >= 3 THEN InsertByMentions(sorted, r) ELSE sorted,
                       entries)

RECURSIVE SortRecurring(_, _, _)
\* lines 78-96: the themes of at least two questions, by descending mentions
SortRecurring(keys, sorted, entries) ==
    IF keys = <<>> THEN sorted
    ELSE LET r == RecurringOf(entries, Head(keys)) IN
         SortRecurring(Tail(keys),
                       IF r.question_count >= 2 THEN InsertByMentions(sorted, r) ELSE sorted,
                       entries)

\* identify_recurring_themes: the values of the returned dict, in its order
identify_recurring_themes(analyses) ==
    LET entries == ThemeEntries(analyses)
    IN SortRecurring(FirstSeen(entries, {}), <<>>, entries)

\* the sequence s turned left by k places
Rotate(s, k) == [i \in 1..Len(s) |-> s[((i + k - 1) % Len(s)) + 1]]

\* the orders in which the sets of question ids may be listed.  The order of
\* list(set(...)) depends on the string hash seed of the process; the model
\* follows the rotations of the order of the analyses
SetOrders(analyses) ==
    LET ids == [i \in DOMAIN analyses |-> analyses[i].question_id]
    IN IF ids = <<>> THEN {<<>>} ELSE { Rotate(ids, k) : k \in 1..Len(ids) }

\* list(set(question_ids)) when the sets are listed in the given order
ListOfSet(ids, order) ==
    LET Member(x) == x \in ids IN SelectSeq(order, Member)

\* a systemic-issue test that takes any recurring theme of high urgency
SystemicTest_AnySpan(theme_data) ==
    theme_data.average_urgency.num * 10 >= 7 * theme_data.average_urgency.den

\* line 175: average_urgency >= 0.7 and question_count >= 3
SystemicTest(theme_data) ==
    /\ theme_data.average_urgency.num * 10 >= 7 * theme_data.average_urgency.den
    /\ theme_data.question_count >= 3

RECURSIVE identify_systemic_issues(_, _)
\* identify_systemic_issues: one CrossQuestionInsight per recurring theme with
\* average urgency of at least 0.7 in at least 3 questions; the confidence is
\* min(0.9, average_urgency + 0.2), the supporting questions are the first
\* five of the listed question ids
identify_systemic_issues(recurring_themes, order) ==
    IF recurring_themes = <<>> THEN <<>>
    ELSE LET t == Head(recurring_themes)
             u == t.average_urgency
         IN (IF SystemicTest(t)
             THEN <<[insight_type |-> "recurring_barrier",
                     theme |-> t.theme,
                     supporting_questions |->
                         Prefix(ListOfSet(t.question_ids, order), 5),
                     evidence_count |-> t.total_mentions,
                     confidence |->
                         FloatMin(TrueDiv(9, 10),
                                  FloatPlus(AverageUrgency(t.urgency_scores),
                                            TrueDiv(2, 10))),
                     severity_score |-> u]>>
             ELSE <<>>)
            \o identify_systemic_issues(Tail(recurring_themes), order)

RECURSIVE SumResponses(_)
\* sum(a.response_count for a in analyses)
SumResponses(analyses) ==
    IF analyses = <<>> THEN 0
    ELSE Head(analyses).response_count + SumResponses(Tail(analyses))

\* the request of generate_strategic_insights (lines 274-329)
StrategicRequest(analyses, recurring_themes, systemic_issues) ==
    [prompt |->
        Prompt("synthesis", "", "", "",
               <<SumResponses(analyses), Len(analyses)>>,
               [i \in 1..Len(Prefix(recurring_themes, 10)) |->
                   [theme |-> recurring_themes[i].theme,
                    total_mentions |-> recurring_themes[i].total_mentions,
                    question_count |-> recurring_themes[i].question_count,
                    average_urgency |-> recurring_themes[i].average_urgency]]
               \o [i \in 1..Len(Prefix(systemic_issues, 5)) |->
                   [theme |-> systemic_issues[i].theme,
                    question_count |-> Len(systemic_issues[i].supporting_questions),
                    confidence |-> systemic_issues[i].confidence]]),
     instructions |-> "strategic_system_prompt",
     temperature |-> 4,
     response_format |-> FALSE]

\* result.get('strategic_insights', [])
StrategicOf(content) ==
    IF content.body = "insights" THEN <<"strategic insight">> ELSE <<>>

\* synthesis_results (lines 392-401), without the date
SynthesisOf(analyses, strategic_insights, order) ==
    LET recurring_themes == identify_recurring_themes(analyses) IN
    [questions_analyzed |-> Len(analyses),
     total_responses |-> SumResponses(analyses),
     recurring_themes |-> recurring_themes,
     systemic_issues |-> identify_systemic_issues(recurring_themes, order),
     strategic_insights |-> strategic_insights]

NoSynthesis == [questions_analyzed |-> NoneVal]
NoSRes == [status |-> "none", synthesis |-> NoSynthesis]
SReturned(x) == [status |-> "returned", synthesis |-> x]
SRaised(exc) == [status |-> "raised:" \o exc, synthesis |-> NoSynthesis]

\* the one file the synthesis is cached in
SynthesisFile == "cross_question_synthesis.json"

SynthStart ==
    /\ spc' = "lookup"
    /\ sres' = NoSRes

SynthIdle ==
    /\ spc' = "idle"
    /\ sres' = NoSRes

\* synthesize_insights, lines 403-418: write the cache file, log, return
SynthFinalize(ledger, strategic_insights) ==
    \E order \in SetOrders(danalyses) :
       LET results == SynthesisOf(danalyses, strategic_insights, order) IN
       /\ synCache' = (SynthesisFile :> results) @@ synCache
       /\ audit' = log_operation(ledger, "cross_question_synthesis_complete", "")
       /\ sres' = SReturned(results)
       /\ spc' = "done"

\* a synthesize_insights that logs its completion entry for a cached synthesis too
S_Lookup_Logged ==
    /\ spc = "lookup"
    /\ IF SynthesisFile \in DOMAIN synCache
       THEN /\ sres' = SReturned(synCache[SynthesisFile])
            /\ spc' = "done"
            /\ audit' = log_operation(audit, "cross_question_synthesis_complete", "")
            /\ UNCHANGED <<synCache, clientVars>>
       ELSE IF ~clientOK \/ danalyses = <<>>
       THEN /\ SynthFinalize(log_operation(audit, "identify_recurring_themes", ""), <<>>)
            /\ UNCHANGED clientVars
       ELSE /\ \E order \in SetOrders(danalyses) :
                  LET recurring_themes == identify_recurring_themes(danalyses) IN
                  ClientStart(StrategicRequest(danalyses, recurring_themes,
                                 identify_systemic_issues(recurring_themes, order)))
            /\ audit' = log_operation(audit, "identify_recurring_themes", "")
            /\ spc' = "insights"
            /\ UNCHANGED <<synCache, sres>>
    /\ UNCHANGED <<clientOK, llmCache, remoteCalls, featCache, extractVars, qCache,
                   analyzeVars, aboveSynth>>

\* synthesize_insights, lines 353-389: a cached synthesis is returned as it
\* is; otherwise the patterns are computed and, with a client and at least
\* one analysis, one client call asks for the strategic insights
S_Lookup ==
    /\ spc = "lookup"
    /\ IF SynthesisFile \in DOMAIN synCache
       THEN /\ sres' = SReturned(synCache[SynthesisFile])
            /\ spc' = "done"
            /\ UNCHANGED <<audit, synCache, clientVars>>
       ELSE IF ~clientOK \/ danalyses = <<>>
       THEN /\ SynthFinalize(log_operation(audit, "identify_recurring_themes", ""), <<>>)
            /\ UNCHANGED clientVars
       ELSE /\ \E order \in SetOrders(danalyses) :
                  LET recurring_themes == identify_recurring_themes(danalyses) IN
                  ClientStart(StrategicRequest(danalyses, recurring_themes,
                                 identify_systemic_issues(recurring_themes, order)))
            /\ audit' = log_operation(audit, "identify_recurring_themes", "")
            /\ spc' = "insights"
            /\ UNCHANGED <<synCache, sres>>
    /\ UNCHANGED <<clientOK, llmCache, remoteCalls, featCache, extractVars, qCache,
                   analyzeVars, aboveSynth>>

\* generate_strategic_insights, lines 331-339, and the rest of
\* synthesize_insights
S_Insights ==
    /\ spc = "insights"
    /\ cpc = "done"
    /\ IF cres.status = "returned" /\ JsonLoads(cres.content)
       THEN SynthFinalize(audit, StrategicOf(cres.content))
       ELSE IF LogErrorBinds(KwNoClient)
       THEN SynthFinalize(log_error(audit, KwNoClient, "generate_strategic_insights",
                                    NoContext), <<>>)
       ELSE /\ sres' = SRaised("TypeError")
            /\ spc' = "done"
            /\ UNCHANGED <<audit, synCache>>
    /\ ClientIdle
    /\ UNCHANGED <<clientOK, llmCache, remoteCalls, featCache, extractVars, qCache,
                   analyzeVars, aboveSynth>>

(***************************************************************************)
(* run_deep_analysis                                                       *)
(***************************************************************************)
\* a phase 1 loop that goes on to the synthesis after its first question
D_Next_Early ==
    /\ top = "pipeline"
    /\ dpc = "phase1"
    /\ apc = "idle"
    /\ IF dq > 1
       THEN /\ SynthStart
            /\ dpc' = "phase2"
            /\ UNCHANGED <<dq, analyzeVars>>
       ELSE /\ AnalyzeStart(dq)
            /\ UNCHANGED <<dpc, dq, synthVars>>
    /\ UNCHANGED <<clientOK, llmCache, audit, clientVars, remoteCalls, featCache,
                   extractVars, qCache, synCache, danalyses, dres, lastExit, prev, top, pureVars>>

\* run_deep_analysis, lines 127-139: the next question with responses goes to
\* analyze_question, a question without responses is passed over; after the
\* last question the synthesis starts (lines 149-153)
D_Next ==
    /\ top = "pipeline"
    /\ dpc = "phase1"
    /\ apc = "idle"
    /\ IF dq > Len(Questions)
       THEN /\ SynthStart
            /\ dpc' = "phase2"
            /\ UNCHANGED <<dq, analyzeVars>>
       ELSE IF load_question_responses(Questions[dq].id) = <<>>
       THEN /\ dq' = dq + 1
            /\ UNCHANGED <<dpc, analyzeVars, synthVars>>
       ELSE /\ AnalyzeStart(dq)
            /\ UNCHANGED <<dpc, dq, synthVars>>
    /\ UNCHANGED <<clientOK, llmCache, audit, clientVars, remoteCalls, featCache,
                   extractVars, qCache, synCache, danalyses, dres, lastExit, prev, top, pureVars>>

\* run_deep_analysis, lines 141-147 and 201-209: an analysis is appended, None
\* is passed over, an exception is logged and raised again
D_Analyzed ==
    /\ top = "pipeline"
    /\ dpc = "phase1"
    /\ apc = "done"
    /\ IF ares.status # "returned"
       THEN /\ dpc' = "done"
            /\ dres' = "raised"
            /\ audit' = log_error(audit, LogErrorParams, "deep_analysis_error", NoContext)
            /\ UNCHANGED <<dq, danalyses>>
       ELSE /\ danalyses' = IF ares.analysis # NoAnalysis
                            THEN Append(danalyses, ares.analysis) ELSE danalyses
            /\ dq' = dq + 1
            /\ UNCHANGED <<dpc, dres, audit>>
    /\ AnalyzeIdle
    /\ UNCHANGED <<clientOK, llmCache, clientVars, remoteCalls, featCache,
                   extractVars, qCache, synCache, synthVars, lastExit, prev, top, pureVars>>

\* run_deep_analysis, lines 153-199 and 201-209: the synthesis is kept and the
\* run completes, or its exception is logged and raised again
D_Synthesized ==
    /\ top = "pipeline"
    /\ dpc = "phase2"
    /\ spc = "done"
    /\ dpc' = "done"
    /\ IF sres.status # "returned"
       THEN /\ dres' = "raised"
            /\ audit' = log_error(audit, LogErrorParams, "deep_analysis_error", NoContext)
       ELSE /\ dres' = "complete"
            /\ audit' = log_operation(audit, "deep_analysis_complete", "")
    /\ SynthIdle
    /\ UNCHANGED <<clientOK, llmCache, clientVars, remoteCalls, featCache,
                   extractVars, qCache, analyzeVars, synCache, dq, danalyses,
                   lastExit, prev, top, pureVars>>

(***************************************************************************)
(* The drivers.  A driver is a process run: it opens a session ledger,     *)
(* runs one operation and exits; it may be killed between any two steps.   *)
(* The cache files outlive the process, the ledger of a session is only    *)
(* followed while the session runs.                                        *)
(***************************************************************************)
\* the ledger of a fresh session: AuditLogger.__init__ logs session_start and
\* LLMClient.__init__ logs the provider, or a warning without credentials
SessionStart == <<Entry("session_start", "")>>

\* LLMClient.__init__, lines 112-160: the provider is logged, or a warning
\* when no credentials are configured
client_init(ledger, ok) ==
    IF ok THEN log_operation(ledger, "llm_client_init", "")
    ELSE log_warning(ledger, "llm_client_init")

NewSession(ok) == client_init(SessionStart, ok)

\* requests a caller makes of generate_response directly
DirectPrompt == Prompt("direct", "", "", "p1", <<>>, <<>>)
GenerateRequests ==
    { [prompt |-> DirectPrompt, instructions |-> i, temperature |-> t,
       response_format |-> f] :
       i \in {NoneVal, ""}, t \in {NoTemperature, 0, 4}, f \in BOOLEAN }

\* arguments a caller passes to extract_features
ResponseIds == {"r1", "r2"}
QuestionIds == {"q1", "q2"}
ExtractRequests ==
    [response : {"t1"}, question : {"Q"}, response_id : ResponseIds,
     question_id : QuestionIds]

NoPrev == [req |-> NoExtract, res |-> NoFeat, calls |-> 0]

DriverIdle ==
    /\ dpc' = "idle"
    /\ dq' = 0
    /\ danalyses' = <<>>
    /\ dres' = "none"

CallGenerate ==
    /\ top = "none"
    /\ \E req \in GenerateRequests : ClientStart(req)
    /\ top' = "generate"
    /\ remoteCalls' = 0
    /\ audit' = NewSession(clientOK)
    /\ UNCHANGED <<clientOK, llmCache, featCache, extractVars, pipeVars, lastExit, prev, pureVars>>

GenerateDone ==
    /\ top = "generate"
    /\ cpc = "done"
    /\ ClientIdle
    /\ top' = "none"
    /\ lastExit' = "ended"
    /\ audit' = <<>>
    /\ remoteCalls' = 0
    /\ UNCHANGED <<clientOK, llmCache, featCache, extractVars, pipeVars, prev, pureVars>>

CallExtract ==
    /\ top = "none"
    /\ \E req \in ExtractRequests : ExtractStart(req)
    /\ top' = "extract"
    /\ remoteCalls' = 0
    /\ audit' = NewSession(clientOK)
    /\ UNCHANGED <<clientOK, llmCache, clientVars, featCache, pipeVars, lastExit, prev, pureVars>>

ExtractDone ==
    /\ top = "extract"
    /\ epc = "done"
    /\ prev' = [req |-> ereq, res |-> eres, calls |-> remoteCalls]
    /\ ExtractIdle
    /\ top' = "none"
    /\ lastExit' = "ended"
    /\ audit' = <<>>
    /\ remoteCalls' = 0
    /\ UNCHANGED <<clientOK, llmCache, clientVars, featCache, pipeVars, pureVars>>

\* run_deep_analysis, lines 110-130: a new session, the start is logged, the
\* QuestionAnalyzer with its extractor and their two clients is built and the
\* phase 1 loop begins at the first question.  Without credentials the client
\* has no model attribute and the constructor of the extractor (its line 48)
\* raises AttributeError, which run_deep_analysis logs and raises again
CallPipeline ==
    /\ top = "none"
    /\ top' = "pipeline"
    /\ dq' = 1
    /\ danalyses' = <<>>
    /\ remoteCalls' = 0
    /\ LET started == log_operation(SessionStart, "deep_analysis_start", "") IN
       IF clientOK
       THEN /\ dpc' = "phase1"
            /\ dres' = "none"
            /\ audit' = client_init(client_init(started, TRUE), TRUE)
       ELSE /\ dpc' = "done"
            /\ dres' = "raised"
            /\ audit' = log_error(client_init(started, FALSE), LogErrorParams,
                                  "deep_analysis_error", NoContext)
    /\ UNCHANGED <<clientOK, llmCache, clientVars, featCache, extractVars, qCache,
                   analyzeVars, synCache, synthVars, lastExit, prev, pureVars>>

\* the process of run_deep_analysis ends
PipelineDone ==
    /\ top = "pipeline"
    /\ dpc = "done"
    /\ DriverIdle
    /\ top' = "none"
    /\ lastExit' = "ended"
    /\ audit' = <<>>
    /\ remoteCalls' = 0
    /\ UNCHANGED <<clientOK, llmCache, clientVars, featCache, extractVars, qCache,
                   analyzeVars, synCache, synthVars, prev, pureVars>>

\* the process is killed: the cache files stay as they are
Interrupt ==
    /\ top # "none"
    /\ top' = "none"
    /\ lastExit' = "killed"
    /\ ClientIdle
    /\ ExtractIdle
    /\ AnalyzeIdle
    /\ SynthIdle
    /\ DriverIdle
    /\ prev' = NoPrev
    /\ remoteCalls' = 0
    /\ audit' = <<>>
    /\ UNCHANGED <<clientOK, llmCache, featCache, qCache, synCache, pureVars>>

\* cache files a feature cache may hold from runs of an earlier schema version:
\* records that no longer validate
StaleRecord == [valid |-> FALSE, features |-> NoneVal]
FeatureFiles == { FeatureFile(r) : r \in ExtractRequests }
EmptyCache == [k \in {} |-> NoneVal]

InitIdle ==
    /\ llmCache = EmptyCache
    /\ audit = <<>>
    /\ cpc = "idle"
    /\ creq = NoReq
    /\ attempt = 0
    /\ cpending = NoAnswer
    /\ cres = NoRes
    /\ cCalls = 0
    /\ cFailed = 0
    /\ hitAtStart = FALSE
    /\ epc = "idle"
    /\ ereq = NoExtract
    /\ eres = NoFeat
    /\ estale = FALSE
    /\ qCache = EmptyCache
    /\ apc = "idle"
    /\ areq = 0
    /\ aidx = 0
    /\ afeatures = <<>>
    /\ afailed = 0
    /\ ahit = FALSE
    /\ ares = NoARes
    /\ synCache = EmptyCache
    /\ spc = "idle"
    /\ sres = NoSRes
    /\ dpc = "idle"
    /\ dq = 0
    /\ danalyses = <<>>
    /\ dres = "none"
    /\ prev = NoPrev
    /\ top = "none"
    /\ lastExit = "none"
    /\ remoteCalls = 0
    /\ progCache = EmptyCache
    /\ ppc = "idle"
    /\ pin = <<>>
    /\ pidx = 0
    /\ pwith = <<>>
    /\ panalyses = EmptyCache
    /\ pres = "none"
    /\ pextracts = EmptyCache
    /\ survey = AllResponses
    /\ raceFile = [state |-> "absent"]
    /\ rpc = [w \in {1, 2} |-> "idle"]
    /\ rgot = [w \in {1, 2} |-> NoneContent]
    /\ rattempt = [w \in {1, 2} |-> 0]
    /\ rret = [w \in {1, 2} |-> NoneContent]

\* the steps of generate_response
ClientSteps ==
    \/ GR_Lookup
    \/ GR_Remote(RemoteAnswers)
    \/ GR_Save

NoAgg == [raised |-> FALSE, themes |-> <<>>]
\* no function is run on its own
NoFn == [op |-> "none"]

(* callers of generate_response *)
InitClient ==
    /\ InitIdle
    /\ clientOK \in BOOLEAN
    /\ featCache = EmptyCache
    /\ aggIn = <<>>
    /\ aggOut = NoAgg
    /\ fnIn = NoFn
    /\ fnOut = NoFn

NextClient ==
    \/ ClientSteps
    \/ CallGenerate
    \/ GenerateDone
    \/ Interrupt

SpecClient == InitClient /\ [][NextClient]_vars

(* callers of extract_features: an extractor exists only with a client, its *)
(* constructor reads the model attribute of the client (extractor.py:48)   *)
Init ==
    /\ InitIdle
    /\ clientOK = TRUE
    /\ \E stale \in SUBSET FeatureFiles : featCache = [f \in stale |-> StaleRecord]
    /\ aggIn = <<>>
    /\ aggOut = NoAgg
    /\ fnIn = NoFn
    /\ fnOut = NoFn

Next ==
    \/ ClientSteps
    \/ E_Lookup
    \/ E_Miss
    \/ E_Finish
    \/ CallExtract
    \/ ExtractDone
    \/ Interrupt

Spec == Init /\ [][Next]_vars

(* callers of aggregate_themes: every list of at most MaxRecords records *)
AggThemeLists ==
    {<<>>, <<"access">>, <<"funding">>, <<"access", "funding">>,
     <<"funding", "access">>, <<"access", "access">>, <<"funding", "funding">>}
AggFeatures ==
    { [themes |-> t, sentiment |-> m[1], urgency |-> m[2], stakeholder_type |-> "artist",
       contains_actionable_feedback |-> TRUE] :
      t \in AggThemeLists, m \in {<<"negative", "high">>, <<"positive", "low">>} }
AggInputs == UNION { [1..n -> AggFeatures] : n \in 0..MaxRecords }

InitAgg ==
    /\ InitIdle
    /\ clientOK = TRUE
    /\ featCache = EmptyCache
    /\ aggIn \in AggInputs
    /\ aggOut = NoAgg
    /\ fnIn = NoFn
    /\ fnOut = NoFn
    /\ top = "none"

Aggregate ==
    /\ top = "none"
    /\ top' = "aggregated"
    /\ aggOut' = aggregate_themes(aggIn)
    /\ UNCHANGED <<clientOK, llmCache, audit, clientVars, remoteCalls, featCache,
                   extractVars, pipeVars, lastExit, prev, aggIn, fnIn, fnOut, programVars, survey,
                   raceVars>>

NextAgg == Aggregate

SpecAgg == InitAgg /\ [][NextAgg]_vars

(* the pipeline: run_deep_analysis, run and killed any number of times *)
PipelineAnswers ==
    { [ok |-> FALSE, content |-> NoneContent, usage |-> NoneVal] }
    \cup { [ok |-> TRUE, content |-> [fence |-> "", body |-> b], usage |-> "usage"]
           : b \in {"featA", "insights", "notjson"} }

InitPipeline ==
    /\ InitIdle
    /\ clientOK \in BOOLEAN
    /\ featCache = EmptyCache
    /\ aggIn = <<>>
    /\ aggOut = NoAgg
    /\ fnIn = NoFn
    /\ fnOut = NoFn

NextPipeline ==
    \/ GR_Lookup
    \/ GR_Remote(PipelineAnswers)
    \/ GR_Save
    \/ E_Lookup
    \/ E_Miss
    \/ E_Finish
    \/ A_Lookup
    \/ A_Extract
    \/ A_Extracted
    \/ A_Aggregate
    \/ A_Insights
    \/ S_Lookup
    \/ S_Insights
    \/ CallPipeline
    \/ D_Next
    \/ D_Analyzed
    \/ D_Synthesized
    \/ PipelineDone
    \/ Interrupt

SpecPipeline == InitPipeline /\ [][NextPipeline]_vars

(***************************************************************************)
(* Properties                                                              *)
(***************************************************************************)
\* the content conforms to the schema the caller expects (ResponseFeatures)
Conforming(content) == JsonLoads(content) /\ FeaturesValidate(content)

\* C1: in generate_response the cache lookup precedes any remote call, and
\* an invocation that finds a cache entry for its key returns the cached
\* payload and issues no remote call.
C1_HitServesPayload ==
    /\ cpc \in {"remote", "save"} => KeyOf(creq) \notin DOMAIN llmCache
    /\ (cpc = "done" /\ hitAtStart) =>
          /\ cCalls = 0
          /\ cres.status = "returned"
          /\ cres.content = llmCache[KeyOf(creq)].content

\* two extract_features calls have the same (response text, question text);
\* the model identity is the same for every call of a run
SameTexts(r1, r2) == r1.response = r2.response /\ r1.question = r2.question

\* the call the driver completed before the running one returned a record
PrevReturnedRecord == prev.res.status = "returned" /\ prev.res.features # NoneVal

\* C2 as stated: extract_features called twice with identical arguments, the
\* first call going to the remote service, returns identical records and
\* issues exactly one remote call over the two calls.
C2_ExactlyOneCall ==
    (top = "extract" /\ epc = "done" /\ prev.req = ereq /\ PrevReturnedRecord
       /\ prev.calls >= 1)
    => (eres = prev.res /\ prev.calls + remoteCalls = 1)

\* C2 amended: extract_features called twice with identical (response text,
\* question text, model) and the same question_id, the first call returning
\* a record: the second call returns the identical record and issues no
\* remote call; the first call issued at most llm_retry_attempts remote calls.
C2_SecondCallServed ==
    (top = "extract" /\ epc = "done" /\ SameTexts(prev.req, ereq)
       /\ prev.req.question_id = ereq.question_id /\ PrevReturnedRecord)
    => (eres = prev.res /\ remoteCalls = 0 /\ prev.calls <= LlmRetryAttempts)

\* a second call was served the record of a first call that needed a retry
C2_Witness ==
    /\ top = "extract" /\ epc = "done"
    /\ SameTexts(prev.req, ereq)
    /\ prev.req.question_id = ereq.question_id
    /\ prev.req.response_id # ereq.response_id
    /\ PrevReturnedRecord
    /\ prev.calls >= 2
    /\ eres = prev.res

\* C3: extract_features never throws: every failure of a single item ends in
\* a returned None.
C3_NeverThrows == epc = "done" => eres.status = "returned"

\* C4: one generate_response invocation issues at most llm_retry_attempts
\* remote calls, and when every attempt failed it ends by raising to the
\* caller, never by returning a value.
C4_BoundedAttempts ==
    /\ cCalls <= LlmRetryAttempts
    /\ (cpc = "done" /\ cFailed = attempt) => cres.status = "raised:RetryError"

\* an invocation gave up after llm_retry_attempts failed remote calls
C4_Witness ==
    /\ cpc = "done"
    /\ cCalls = LlmRetryAttempts
    /\ cFailed = LlmRetryAttempts
    /\ cres.status = "raised:RetryError"

\* C9: a cached feature record that fails validation on load is treated as a
\* miss: extract_features does not raise, and the record it returns is the
\* freshly extracted one, written over the stale file.
C9_StaleIsMiss ==
    (epc = "done" /\ estale) =>
        /\ eres.status = "returned"
        /\ eres.features # NoneVal => featCache[FeatureFile(ereq)].valid

\* C10: a remote output that fails the expected schema is not returned by the
\* client call that asked for the schema, and is not kept in the cache for a
\* later call with the same inputs.
C10_NonConformingRejected ==
    /\ (cpc = "done" /\ creq.response_format /\ cres.status = "returned")
          => Conforming(cres.content)
    /\ \A k \in DOMAIN llmCache :
          k.prompt.kind = "extract" => Conforming(llmCache[k].content)

\* number of records of a features_list whose theme list names the theme
RecordsWith(features_list, theme) ==
    Cardinality({i \in DOMAIN features_list :
                   \E j \in DOMAIN features_list[i].themes :
                       features_list[i].themes[j] = theme})

\* C7: for N feature records in which a theme appears in exactly k records
\* (k >= 1), aggregate_themes reports count = k and percentage = k/N for it.
C7_CountIsRecords ==
    (top = "aggregated" /\ ~aggOut.raised) =>
        \A theme \in {"access", "funding"} :
            LET k == RecordsWith(aggIn, theme) IN
            k >= 1 =>
               \E i \in DOMAIN aggOut.themes :
                   /\ aggOut.themes[i].theme = theme
                   /\ aggOut.themes[i].count = k
                   /\ aggOut.themes[i].percentage.num * Len(aggIn)
                        = k * 100 * aggOut.themes[i].percentage.den

\* the feature file of the running extract_features holds a valid record
FeatureCached ==
    /\ FeatureFile(ereq) \in DOMAIN featCache
    /\ featCache[FeatureFile(ereq)].valid

\* every unit an operation returned is in its cache, and no operation is past
\* its cache lookup for a unit that is in the cache
C5_UnitsCached ==
    /\ (epc = "done" /\ eres.status = "returned" /\ eres.features # NoneVal)
          => (FeatureCached /\ featCache[FeatureFile(ereq)].features = eres.features)
    /\ (apc = "done" /\ ares.status = "returned" /\ ares.analysis # NoAnalysis)
          => /\ Questions[areq].id \in DOMAIN qCache
             /\ qCache[Questions[areq].id] = ares.analysis
    /\ (spc = "done" /\ sres.status = "returned")
          => /\ SynthesisFile \in DOMAIN synCache
             /\ synCache[SynthesisFile] = sres.synthesis
    /\ epc \in {"miss", "wait"} => ~FeatureCached
    /\ apc \in {"extract", "wait", "aggregate", "insights"}
          => Questions[areq].id \notin DOMAIN qCache
    /\ spc = "insights" => SynthesisFile \notin DOMAIN synCache

\* a step, the kill of the process included, keeps every cached unit, and a
\* step that issues a remote call is for a unit that is not cached
C5_UnitsKept ==
    /\ \A f \in DOMAIN featCache :
          featCache[f].valid => (f \in DOMAIN featCache' /\ featCache'[f] = featCache[f])
    /\ \A q \in DOMAIN qCache : q \in DOMAIN qCache' /\ qCache'[q] = qCache[q]
    /\ \A f \in DOMAIN synCache : f \in DOMAIN synCache' /\ synCache'[f] = synCache[f]
    /\ remoteCalls' > remoteCalls =>
          /\ creq.prompt.kind = "extract" => ~FeatureCached
          /\ creq.prompt.kind = "insights" => Questions[areq].id \notin DOMAIN qCache
          /\ creq.prompt.kind = "synthesis" => SynthesisFile \notin DOMAIN synCache

\* C5: each completed unit (a feature record, a question analysis, the
\* synthesis) is in its cache when the operation returns it and stays there
\* when the process is killed, and a restarted run issues no remote call and
\* no recomputation for a unit that is cached.
C5_Resumable == [](C5_UnitsCached) /\ [][C5_UnitsKept]_vars

\* a run started after a kill was served the analysis of the first question
\* from the cache, without a remote call, and now extracts for the second
C5_Witness ==
    /\ top = "pipeline" /\ lastExit = "killed"
    /\ Len(danalyses) = 1 /\ danalyses[1] = qCache["q1"]
    /\ areq = 2 /\ epc = "wait" /\ cpc = "remote"
    /\ remoteCalls = 0

\* number of responses in the slice of the question being analysed
SliceSize == Len(load_question_responses(Questions[areq].id))

\* C6: when M of the N responses of a question fail extraction (0 <= M < N),
\* analyze_question gives an analysis whose response_count is N - M and whose
\* theme percentages all have the denominator N - M.
C6_DenominatorIsSuccesses ==
    (apc = "done" /\ ~ahit) =>
        /\ (afailed >= 1 /\ afeatures # <<>>) =>
              (ares.status = "returned" /\ ares.analysis # NoAnalysis)
        /\ (ares.status = "returned" /\ ares.analysis # NoAnalysis) =>
              /\ ares.analysis.response_count = SliceSize - afailed
              /\ \A i \in DOMAIN ares.analysis.dominant_themes :
                    ares.analysis.dominant_themes[i].percentage.den
                       = SliceSize - afailed

\* C8: when a cached analysis exists for the question, analyze_question
\* returns it with no extraction, no client call and no cache write, and the
\* cached analysis stays as it was.
C8_CachedAnalysisServed ==
    [][ (apc = "lookup" /\ apc' # "lookup" /\ top' = top
           /\ Questions[areq].id \in DOMAIN qCache)
        => /\ apc' = "done"
           /\ ares' = AReturned(qCache[Questions[areq].id])
           /\ UNCHANGED <<llmCache, featCache, qCache, synCache, remoteCalls,
                          clientVars, extractVars, afeatures>> ]_vars

\* analyze_question returned the cached analysis of a question
C8_Witness ==
    /\ apc = "done" /\ ahit
    /\ ares = AReturned(qCache[Questions[areq].id])
    /\ afeatures = <<>>
    /\ epc = "idle" /\ cpc = "idle"

\* the one client call of a generation step came back without a document:
\* generate_response raised, or its content does not parse
GenerationFailed ==
    /\ cpc = "done"
    /\ ~(cres.status = "returned" /\ JsonLoads(cres.content))

\* C11: when the client call of insight generation (analyze_question) or of
\* strategic-insight generation (synthesize_insights) fails, the enclosing
\* operation does not raise: it returns the themes, distributions and
\* aggregates it computed, with the generated lists empty.
C11_GenerationFailureAbsorbed ==
    [][ /\ (apc = "insights" /\ apc' = "done" /\ GenerationFailed)
           => /\ ares'.status = "returned"
              /\ ares'.analysis =
                    LET features_list == FeatureRecords(afeatures) IN
                    QuestionAnalysisOf(Questions[areq], features_list,
                        aggregate_themes(features_list).themes, NoInsights)
        /\ (spc = "insights" /\ spc' = "done" /\ GenerationFailed)
           => /\ sres'.status = "returned"
              /\ \E order \in SetOrders(danalyses) :
                    sres'.synthesis = SynthesisOf(danalyses, <<>>, order) ]_vars

\* this step is a failure that the code recovers from: an attempt of
\* generate_response failed, a cached record failed re-validation, an
\* extraction failed, or the call of a generation step failed
FailureStep ==
    \/ cFailed' = cFailed + 1
    \/ epc = "lookup" /\ ~estale /\ estale'
    \/ /\ epc = "wait" /\ epc' = "done"
       /\ ~(eres'.status = "returned" /\ eres'.features # NoneVal)
    \/ apc = "insights" /\ apc' = "done" /\ GenerationFailed
    \/ spc = "insights" /\ spc' = "done" /\ GenerationFailed

\* this step appended entries to the ledger, the last one an error entry
ErrorLogged ==
    /\ Len(audit') > Len(audit)
    /\ SubSeq(audit', 1, Len(audit)) = audit
    /\ audit'[Len(audit')].operation = "error"

\* C12: every failure (a failed client attempt, a failed extraction, a failed
\* cache re-validation, a failed insight generation) appends an error entry
\* to the audit ledger before its recovery (retry, return null, treat as a
\* miss, degrade to empty lists): no failure step leaves the ledger without a
\* new error entry.
C12_FailureAudited == [][FailureStep => ErrorLogged]_vars

(***************************************************************************)
(* The writers of one audit session.  Every component holds the logger of  *)
(* the session (or a logger built with the same session_id, which opens    *)
(* the same file); each log call is one write to the file opened in append *)
(* mode, so the calls of the writers interleave one whole line at a time.  *)
(***************************************************************************)
\* what a log call leaves alone
beyondLedger == <<clientOK, llmCache, clientVars, remoteCalls, featCache, extractVars,
                  pipeVars, lastExit, prev, pureVars>>

\* the ledger is followed up to MaxEntries entries
Writable ==
    /\ Len(audit) < MaxEntries
    /\ UNCHANGED beyondLedger

\* AuditLogger.__init__: a logger (the first or a further one of the
\* session) logs session_start
L_Init ==
    /\ Writable
    /\ audit' = log_operation(audit, "session_start", "")
    /\ top' = "audit"

L_Operation ==
    /\ top = "audit"
    /\ Writable
    /\ \E operation \in {"deep_analysis_start", "load_question_responses"} :
          audit' = log_operation(audit, operation, "")
    /\ top' = top

\* a log_error call, with the keywords the callers of the program use; a call
\* that does not bind raises and writes nothing
L_Error ==
    /\ top = "audit"
    /\ Writable
    /\ \E kw \in {LogErrorParams, KwOther} :
          audit' = log_error(audit, kw, "deep_analysis_error", NoContext)
    /\ top' = top

L_Warning ==
    /\ top = "audit"
    /\ Writable
    /\ audit' = log_warning(audit, "llm_client_init")
    /\ top' = top

L_LlmCall ==
    /\ top = "audit"
    /\ Writable
    /\ \E content \in {NoneContent, [fence |-> "", body |-> "featA"]} :
          audit' = log_llm_call(audit, DirectPrompt, content, "usage")
    /\ top' = top

L_Close ==
    /\ top = "audit"
    /\ Writable
    /\ audit' = close(audit)
    /\ top' = top

InitAudit ==
    /\ InitIdle
    /\ clientOK = TRUE
    /\ featCache = EmptyCache
    /\ aggIn = <<>>
    /\ aggOut = NoAgg
    /\ fnIn = NoFn
    /\ fnOut = NoFn

NextAudit ==
    \/ L_Init
    \/ L_Operation
    \/ L_Error
    \/ L_Warning
    \/ L_LlmCall
    \/ L_Close

SpecAudit == InitAudit /\ [][NextAudit]_vars

\* C13: the audit ledger is append-only: every log operation (log_operation,
\* log_error, log_warning, log_llm_call, close) of any writer of the session
\* appends exactly one entry at the end and leaves the earlier entries and
\* their order unchanged.
C13_AppendOnly ==
    [][ audit' # audit =>
          /\ Len(audit') = Len(audit) + 1
          /\ SubSeq(audit', 1, Len(audit)) = audit ]_vars

\* a ledger that several kinds of log operation have appended to, the close
\* of one writer followed by the entry of another
C13_Witness ==
    /\ top = "audit" /\ Len(audit) = 4
    /\ audit[1].operation = "session_start"
    /\ audit[2].operation = "error"
    /\ audit[3].operation = "session_end"
    /\ audit[4].operation = "llm_call"

\* the verbatim prompt or response text an audit entry holds
RawTexts(entry) ==
    IF entry.operation = "llm_call" THEN {entry.detail.prompt_preview}
    ELSE IF entry.operation = "error" THEN entry.detail.context
    ELSE {}

\* the entries the ledger holds after those of the session and client set-up
CallEntries == { i \in DOMAIN audit : i > Len(NewSession(clientOK)) }

\* C14: every generate_response call, cache hit or miss, leaves an audit
\* entry; the entries identify the prompt and the response by content hash
\* and hold no verbatim prompt or response text; for a successful remote call
\* the entry records the token usage.
C14_CallAudited ==
    (top = "generate" /\ cpc = "done") =>
        /\ CallEntries # {}
        /\ \A i \in CallEntries : RawTexts(audit[i]) = {}
        /\ (cres.status = "returned" /\ ~hitAtStart) =>
              \E i \in CallEntries :
                 /\ audit[i].operation = "llm_call"
                 /\ audit[i].detail.prompt_hash = hash_data(creq.prompt)
                 /\ audit[i].detail.response_hash = hash_data(cres.content)
                 /\ audit[i].detail.tokens_used = cres.tokens_used

(***************************************************************************)
(* The two cache-key functions, run on pairs of calls.                     *)
(***************************************************************************)
\* temperatures (in tenths) a caller may pass, or none
KeyTemperatures == {NoTemperature, 0, 3, 4}
KeyRequests ==
    [prompt : {DirectPrompt}, instructions : {NoneVal, "", "sys"},
     temperature : KeyTemperatures, response_format : {FALSE}]
KeyExtractRequests ==
    [response : {"t1", "t2"}, question : {"Q"}, response_id : ResponseIds,
     question_id : QuestionIds]

KeyInputs ==
    [op : {"client_keys"}, a : KeyRequests, b : KeyRequests]
    \cup [op : {"feature_keys"}, a : KeyExtractRequests, b : KeyExtractRequests]

\* what running a function on its own leaves alone
beyondFn == <<clientOK, llmCache, audit, clientVars, remoteCalls, featCache,
              extractVars, pipeVars, lastExit, prev, top, aggIn, aggOut, fnIn, programVars,
              survey, raceVars>>

\* the keys generate_response computes for two calls
K_Client ==
    /\ fnIn.op = "client_keys"
    /\ fnOut = NoFn
    /\ fnOut' = [op |-> "keys", a |-> KeyOf(fnIn.a), b |-> KeyOf(fnIn.b)]
    /\ UNCHANGED beyondFn

\* the keys extract_features computes for two calls
K_Feature ==
    /\ fnIn.op = "feature_keys"
    /\ fnOut = NoFn
    /\ fnOut' = [op |-> "keys",
                 a |-> generate_feature_cache_key(fnIn.a.response, fnIn.a.question),
                 b |-> generate_feature_cache_key(fnIn.b.response, fnIn.b.question)]
    /\ UNCHANGED beyondFn

InitKeys ==
    /\ InitIdle
    /\ clientOK = TRUE
    /\ featCache = EmptyCache
    /\ aggIn = <<>>
    /\ aggOut = NoAgg
    /\ fnIn \in KeyInputs
    /\ fnOut = NoFn

NextKeys ==
    \/ K_Client
    \/ K_Feature

SpecKeys == InitKeys /\ [][NextKeys]_vars

\* C15: the feature cache key of extract_features is the same for two calls
\* that differ only in response_id; and for two calls of generate_response
\* whose prompt, instructions and model are equal and to which the caller
\* passes two distinct temperature values, the client cache keys differ.
C15_KeysDetermined ==
    fnOut.op = "keys" =>
        /\ (fnIn.op = "feature_keys"
              /\ [fnIn.a EXCEPT !.response_id = fnIn.b.response_id] = fnIn.b)
           => fnOut.a = fnOut.b
        /\ (fnIn.op = "client_keys"
              /\ fnIn.a.temperature # NoTemperature
              /\ fnIn.b.temperature # NoTemperature
              /\ fnIn.a.temperature # fnIn.b.temperature
              /\ [fnIn.a EXCEPT !.temperature = fnIn.b.temperature] = fnIn.b)
           => fnOut.a # fnOut.b

\* C16: once a record has been extracted and cached for a (response text,
\* question text, model), every later extract_features call with the same
\* three values, whatever its response_id and question_id, computes the same
\* cache key, is served the same record and issues no remote call (the later
\* call meeting no cache file that fails validation).
C16_SameInputsServed ==
    (top = "extract" /\ epc = "done" /\ ~estale
       /\ SameTexts(prev.req, ereq) /\ PrevReturnedRecord)
    => /\ generate_feature_cache_key(ereq.response, ereq.question)
            = generate_feature_cache_key(prev.req.response, prev.req.question)
       /\ eres = prev.res
       /\ remoteCalls = 0

\* C16 amended: once a record has been extracted and cached for a (response
\* text, question text, model) under a question_id, every later
\* extract_features call with the same three values and the same
\* question_id, whatever its response_id, computes the same cache key, finds
\* the cache file, is served the same record and issues no remote call and no
\* client call.
C16_SameQuestionServed ==
    (top = "extract" /\ epc = "done"
       /\ SameTexts(prev.req, ereq) /\ prev.req.question_id = ereq.question_id
       /\ PrevReturnedRecord)
    => /\ generate_feature_cache_key(ereq.response, ereq.question)
            = generate_feature_cache_key(prev.req.response, prev.req.question)
       /\ FeatureFile(ereq) \in DOMAIN featCache
       /\ eres = FeatReturned(featCache[FeatureFile(ereq)].features)
       /\ eres = prev.res
       /\ remoteCalls = 0
       /\ audit[Len(audit)].operation = "feature_cache_hit"

\* a call with another response_id was served the record that the call
\* before it had extracted with one remote call
C16_Witness ==
    /\ top = "extract" /\ epc = "done"
    /\ SameTexts(prev.req, ereq)
    /\ prev.req.question_id = ereq.question_id
    /\ prev.req.response_id # ereq.response_id
    /\ PrevReturnedRecord
    /\ prev.calls = 1
    /\ remoteCalls = 0
    /\ audit[Len(audit)].operation = "feature_cache_hit"

\* the stage a running analyze_question and a running synthesis are in agrees
\* with what has been completed before it
C17_StagesInOrder ==
    /\ apc \in {"aggregate", "insights"} =>
          /\ epc = "idle"
          /\ aidx > SliceSize
          /\ Len(afeatures) + afailed = SliceSize
    /\ apc = "insights" =>
          /\ cpc # "idle"
          /\ creq = InsightsRequest(Questions[areq].text,
                       aggregate_themes(FeatureRecords(afeatures)).themes,
                       FeatureRecords(afeatures))
          /\ Questions[areq].id \notin DOMAIN qCache
    /\ spc # "idle" =>
          /\ dq > Len(Questions)
          /\ apc = "idle" /\ epc = "idle"
          /\ \A i \in DOMAIN Questions :
                load_question_responses(Questions[i].id) # <<>> =>
                   /\ Questions[i].id \in DOMAIN qCache
                   /\ \E j \in DOMAIN danalyses :
                         danalyses[j] = qCache[Questions[i].id]

\* the cache file of an analysis is written by the last step of
\* analyze_question, after aggregation and insight generation
C17_CachedLast ==
    qCache' # qCache =>
        /\ apc \in {"aggregate", "insights"}
        /\ apc' = "done"
        /\ cpc' = "idle"
        /\ ares'.status = "returned"
        /\ qCache' = save_analysis(qCache, Questions[areq].id, ares'.analysis)

\* C17: stage ordering.  In analyze_question aggregation starts only after
\* every response of the slice has completed or failed extraction, insight
\* generation only after aggregation, and the analysis is cached last; the
\* synthesis starts only after the analysis of every question has finished.
C17_StageOrdering == [](C17_StagesInOrder) /\ [][C17_CachedLast]_vars

\* the synthesis asks for its insights after the analyses of both questions
\* have been collected and cached
C17_Witness ==
    /\ top = "pipeline" /\ dpc = "phase2"
    /\ spc = "insights" /\ cpc = "remote"
    /\ Len(danalyses) = Len(Questions)
    /\ \A j \in DOMAIN danalyses : danalyses[j] = qCache[Questions[j].id]
    /\ remoteCalls > 0

(***************************************************************************)
(* identify_recurring_themes and identify_systemic_issues, run on lists of *)
(* question analyses.                                                      *)
(***************************************************************************)
\* the i-th question of a survey
SynthQuestion(i) == [id |-> "s" \o ToString(i), text |-> "S" \o ToString(i)]

\* a QuestionTheme as aggregate_themes builds it for a theme mentioned once
\* in each of count records out of total, whose urgency scores sum to sum2/2
ThemeWith(theme, count, sum2, total) ==
    [theme |-> theme,
     count |-> count,
     percentage |-> [num |-> count * 100, den |-> total],
     sentiment_distribution |-> ("neutral" :> count),
     urgency_score |-> [num |-> sum2, den |-> 2 * count],
     stakeholder_breakdown |-> ("artist" :> count)]

\* the QuestionAnalysis of question i over total records (high of them of
\* high and low of low urgency, the rest medium) with the given themes
AnalysisWith(i, total, high, low, themes) ==
    [question_id |-> SynthQuestion(i).id,
     question_text |-> SynthQuestion(i).text,
     response_count |-> total,
     dominant_themes |-> Prefix(themes, 20),
     sentiment_distribution |-> ("neutral" :> total),
     urgency_distribution |->
         [u \in {v \in {"high", "medium", "low"} :
                   (v = "high" /\ high > 0) \/ (v = "low" /\ low > 0)
                   \/ (v = "medium" /\ total - high - low > 0)} |->
             IF u = "high" THEN high ELSE IF u = "low" THEN low
             ELSE total - high - low],
     stakeholder_distribution |-> ("artist" :> total),
     key_insights |-> <<>>,
     recommendations |-> <<>>,
     contradictions |-> Contradictions(Prefix(themes, 10)),
     consensus_points |-> Consensus(Prefix(themes, 10))]

\* analyses a question of 10 or 100 responses may have: "access" at urgency
\* 0.69, at 0.71, and at 0.70 next to two spellings of a less frequent theme
AnalysisProfiles == {"a69", "a71", "a70"}
ProfileAnalysis(i, profile) ==
    CASE profile = "a69" ->
           AnalysisWith(i, 100, 69, 31, <<ThemeWith("access", 100, 138, 100)>>)
      [] profile = "a71" ->
           AnalysisWith(i, 100, 71, 29, <<ThemeWith("access", 100, 142, 100)>>)
      [] profile = "a70" ->
           AnalysisWith(i, 10, 7, 3, <<ThemeWith(" Access ", 10, 14, 10),
                                       ThemeWith("Funding_Gap", 4, 8, 10),
                                       ThemeWith("funding-gap", 1, 2, 10)>>)

\* a ResponseFeatures record with the given themes
FeaturesWith(themes, urgency) ==
    [themes |-> themes, sentiment |-> "neutral", urgency |-> urgency,
     stakeholder_type |-> "artist", contains_actionable_feedback |-> TRUE]

\* features lists of a question: one record, or three records that name
\* twenty-one themes between them, "access" the last
FeatureProfiles == {"access", "gap", "many"}
ProfileFeatures(profile) ==
    CASE profile = "access" -> <<FeaturesWith(<<"access">>, "high")>>
      [] profile = "gap" -> <<FeaturesWith(<<"Funding_Gap">>, "low")>>
      [] profile = "many" ->
           <<FeaturesWith(<<"t01", "t02", "t03", "t04", "t05", "t06", "t07">>, "low"),
             FeaturesWith(<<"t08", "t09", "t10", "t11", "t12", "t13", "t14">>, "low"),
             FeaturesWith(<<"t15", "t16", "t17", "t18", "t19", "t20", "access">>,
                          "high")>>

\* analyze_question on a features list, without generated insights
AnalysisOfFeatures(i, features_list) ==
    QuestionAnalysisOf(SynthQuestion(i), features_list,
                       aggregate_themes(features_list).themes, NoInsights)

\* the lists of at most n profiles
ProfileLists(profiles, n) == UNION { [1..m -> profiles] : m \in 0..n }

\* what the synthesis is run on: the analyses of up to MaxQuestions
\* questions as they are, or the analyses of up to MaxFeatureQuestions
\* questions computed from the features lists of the questions
SynthInputs ==
    { [op |-> "synthesize", features |-> <<>>,
       analyses |-> [i \in DOMAIN c |-> ProfileAnalysis(i, c[i])]] :
         c \in ProfileLists(AnalysisProfiles, MaxQuestions) }
    \cup
    { [op |-> "synthesize",
       features |-> [i \in DOMAIN c |-> ProfileFeatures(c[i])],
       analyses |-> [i \in DOMAIN c |-> AnalysisOfFeatures(i, ProfileFeatures(c[i]))]] :
         c \in ProfileLists(FeatureProfiles, MaxFeatureQuestions) \ {<<>>} }

\* synthesize_insights, steps 1 and 3: the recurring themes and the systemic
\* issues of the analyses
Synthesize ==
    /\ fnIn.op = "synthesize"
    /\ fnOut = NoFn
    /\ \E order \in SetOrders(fnIn.analyses) :
          LET recurring_themes == identify_recurring_themes(fnIn.analyses) IN
          fnOut' = [op |-> "synthesis",
                    recurring_themes |-> recurring_themes,
                    systemic_issues |->
                        identify_systemic_issues(recurring_themes, order)]
    /\ UNCHANGED beyondFn

InitSynth ==
    /\ InitIdle
    /\ clientOK = TRUE
    /\ featCache = EmptyCache
    /\ aggIn = <<>>
    /\ aggOut = NoAgg
    /\ fnIn \in SynthInputs
    /\ fnOut = NoFn

NextSynth == Synthesize

SpecSynth == InitSynth /\ [][NextSynth]_vars

\* the normalised keys of the dominant themes of the analyses
DominantKeys ==
    UNION { { normalize_theme(fnIn.analyses[i].dominant_themes[j].theme) :
                j \in DOMAIN fnIn.analyses[i].dominant_themes } :
            i \in DOMAIN fnIn.analyses }

\* the ids of the analyses that have the key among their dominant themes
DomQuestions(key) ==
    { fnIn.analyses[i].question_id :
        i \in { n \in DOMAIN fnIn.analyses :
                  \E j \in DOMAIN fnIn.analyses[n].dominant_themes :
                     normalize_theme(fnIn.analyses[n].dominant_themes[j].theme) = key } }

\* the normalised keys of the themes the responses name
ResponseKeys ==
    UNION { UNION { { normalize_theme(fnIn.features[i][r].themes[t]) :
                        t \in DOMAIN fnIn.features[i][r].themes } :
                    r \in DOMAIN fnIn.features[i] } :
            i \in DOMAIN fnIn.features }

\* the questions in whose responses the key occurs
RespQuestions(key) ==
    { i \in DOMAIN fnIn.features :
        \E r \in DOMAIN fnIn.features[i] :
           \E t \in DOMAIN fnIn.features[i][r].themes :
              normalize_theme(fnIn.features[i][r].themes[t]) = key }

\* the key is in the recurring-theme output
InRecurring(key) ==
    \E k \in DOMAIN fnOut.recurring_themes : fnOut.recurring_themes[k].theme = key

\* C18: a theme that occurs in the responses of exactly one question never
\* appears in the recurring-theme output; a theme that occurs in the
\* responses of exactly two distinct questions always appears in it (themes
\* compared by their normalised names).
C18_RecurringThreshold ==
    (fnOut.op = "synthesis" /\ fnIn.features # <<>>) =>
        \A key \in ResponseKeys :
           /\ Cardinality(RespQuestions(key)) = 1 => ~InRecurring(key)
           /\ Cardinality(RespQuestions(key)) = 2 => InRecurring(key)

\* C18 amended: a theme that is among the dominant (twenty most frequent)
\* themes of exactly one question analysis never appears in the
\* recurring-theme output, a theme that is among the dominant themes of
\* exactly two analyses always appears in it, and every theme of the output
\* is among the dominant themes of at least two analyses (themes compared by
\* their normalised names).
C18_DominantThreshold ==
    fnOut.op = "synthesis" =>
        /\ \A key \in DominantKeys :
              /\ Cardinality(DomQuestions(key)) = 1 => ~InRecurring(key)
              /\ Cardinality(DomQuestions(key)) = 2 => InRecurring(key)
        /\ \A k \in DOMAIN fnOut.recurring_themes :
              Cardinality(DomQuestions(fnOut.recurring_themes[k].theme)) >= 2

\* of two analyses, one theme is dominant in both and recurring, another is
\* dominant in one only and not recurring
C18_Witness ==
    /\ fnOut.op = "synthesis"
    /\ Len(fnIn.analyses) = 2
    /\ \E key \in DominantKeys :
          Cardinality(DomQuestions(key)) = 2 /\ InRecurring(key)
    /\ \E key \in DominantKeys :
          Cardinality(DomQuestions(key)) = 1 /\ ~InRecurring(key)

\* the systemic issues reported for a recurring theme
IssuesOf(theme) ==
    { j \in DOMAIN fnOut.systemic_issues : fnOut.systemic_issues[j].theme = theme }

\* min(0.9, mean urgency + 0.2) in floats
CappedConfidence(urgency_scores) ==
    LET raised == FloatPlus(AverageUrgency(urgency_scores), TrueDiv(2, 10))
    IN  IF FloatGreater(TrueDiv(9, 10), raised) THEN raised ELSE TrueDiv(9, 10)

FracEq(a, b) == a.num * b.den = b.num * a.den

\* C19: a recurring theme is reported as a systemic issue exactly when its
\* mean urgency is at least 0.7 and it spans at least 3 distinct questions
\* (0.69 over 5 questions is not one, 0.71 over 3 questions is); the
\* confidence of the issue is min(0.9, mean urgency + 0.2).
C19_SystemicExactly ==
    fnOut.op = "synthesis" =>
        /\ \A k \in DOMAIN fnOut.recurring_themes :
              LET r == fnOut.recurring_themes[k]
                  u == r.average_urgency
              IN /\ (IssuesOf(r.theme) # {}) <=>
                       (/\ u.num * 10 >= 7 * u.den
                        /\ Cardinality(DomQuestions(r.theme)) >= 3)
                 /\ Cardinality(IssuesOf(r.theme)) <= 1
                 /\ \A j \in IssuesOf(r.theme) :
                       fnOut.systemic_issues[j].confidence
                          = CappedConfidence(r.urgency_scores)
        /\ \A j \in DOMAIN fnOut.systemic_issues :
              InRecurring(fnOut.systemic_issues[j].theme)

\* "access" at urgency 0.71 in each of three questions is the one systemic
\* issue, with confidence 0.9
C19_Witness ==
    /\ fnOut.op = "synthesis"
    /\ Len(fnIn.analyses) = 3
    /\ Len(fnOut.recurring_themes) = 1
    /\ FracEq(fnOut.recurring_themes[1].average_urgency, [num |-> 71, den |-> 100])
    /\ Len(fnOut.systemic_issues) = 1
    /\ fnOut.systemic_issues[1].theme = "access"
    /\ fnOut.systemic_issues[1].confidence = TrueDiv(9, 10)

\* C20: for every CrossQuestionInsight, supporting_questions holds only ids
\* of input analyses in which the theme occurred, holds no id twice, and the
\* theme of the insight spans at least two questions.
C20_SupportingQuestions ==
    fnOut.op = "synthesis" =>
        \A j \in DOMAIN fnOut.systemic_issues :
           LET issue == fnOut.systemic_issues[j]
               sq == issue.supporting_questions
           IN /\ \A a \in DOMAIN sq : sq[a] \in DomQuestions(issue.theme)
              /\ \A a, b \in DOMAIN sq : a # b => sq[a] # sq[b]
              /\ Cardinality(DomQuestions(issue.theme)) >= 2

\* an insight whose theme spans six questions names five of them
C20_Witness ==
    /\ fnOut.op = "synthesis"
    /\ \E j \in DOMAIN fnOut.systemic_issues :
          /\ Len(fnOut.systemic_issues[j].supporting_questions) = 5
          /\ Cardinality(DomQuestions(fnOut.systemic_issues[j].theme)) = 6

(***************************************************************************)
(* ProgramAnalyzer: analyze_all_programs, run any number of times.  A text *)
(* is the sequence of its words; a program name of several words stands in *)
(* a text as one word.                                                     *)
(***************************************************************************)
\* ProgramAnalyzer.CULTURAL_PROGRAMS
CULTURAL_PROGRAMS ==
    <<"Nexus", "Thrive", "Elevate", "Austin Live Music Fund", "Art in Public Places",
      "Creative Space Assistance Program", "Cultural Arts Division",
      "Economic Development Department">>

\* str.lower() and the case folding of re.IGNORECASE, on the words in use
Fold(word) ==
    CASE word \in {"Nexus", "NEXUS"} -> "nexus"
      [] word = "Thrive" -> "thrive"
      [] word = "APP" -> "app"
      [] OTHER -> word

\* _create_program_patterns: the alternatives of the pattern of a program: the
\* full name, the acronym of a name of several words (the initials of its
\* capitalised words) and the variations of Assistance and Program
PatternParts(program) ==
    CASE program = "Austin Live Music Fund" -> {program, "ALMF"}
      [] program = "Art in Public Places" -> {program, "APP"}
      [] program = "Creative Space Assistance Program" ->
           {program, "CSAP", "Creative Space Assist Program", "Creative Space Assistance "}
      [] program = "Cultural Arts Division" -> {program, "CAD"}
      [] program = "Economic Development Department" -> {program, "EDD"}
      [] OTHER -> {program}

\* self.program_patterns[program].search(text): some word of the text is,
\* whatever its case, one of the alternatives
PatternSearch(program, text) ==
    \E i \in DOMAIN text : Fold(text[i]) \in { Fold(part) : part \in PatternParts(program) }

\* the mentioned_programs of analyze_all_programs (lines 378-381)
MentionedPrograms(text) ==
    SelectSeq(CULTURAL_PROGRAMS, LAMBDA program : PatternSearch(program, text))

\* ProgramAnalyzer.extract_program_specific_feedback
extract_program_specific_feedback(program_name, responses_with_features) ==
    SelectSeq(responses_with_features, LAMBDA resp_data : PatternSearch(program_name, resp_data.text))

\* the cache file of analyze_program (line 255)
ProgramFile(program_name) == [analysis_of |-> Fold(program_name)]

RECURSIVE JoinSamples(_)
\* chr(10).join(response_samples): the texts, one line each
JoinSamples(program_responses) ==
    IF program_responses = <<>> THEN <<>>
    ELSE <<"\n">> \o Head(program_responses).text \o JoinSamples(Tail(program_responses))

\* the request of analyze_program_themes (lines 157-199): the program, the
\* number of mentions and the texts of the first 50 responses
ThemesRequest(program_name, program_responses) ==
    [prompt |-> Prompt("program", program_name, "",
                       JoinSamples(Prefix(program_responses, 50)),
                       <<Len(program_responses)>>, <<>>),
     instructions |-> "program_system_prompt",
     temperature |-> 4,
     response_format |-> FALSE]

\* the keywords of the log_error call of analyze_program_themes
KwProgram == {"operation", "error_type", "error_message", "program"}

\* analyze_program, lines 275-306: the ProgramFeedback of the responses that
\* mention the program (the lists taken from the theme analysis are left out)
ProgramFeedbackOf(program_name, program_responses) ==
    LET features_list ==
          [i \in DOMAIN program_responses |-> FeaturesOf(program_responses[i].features)]
    IN [program_name |-> program_name,
        mention_count |-> Len(program_responses),
        sentiment_summary |-> Distribution(Sentiments, features_list, "sentiment"),
        demographic_reach |-> Distribution(Stakeholders, features_list, "stakeholder_type")]

\* what no step of analyze_all_programs touches
aroundPrograms == <<clientOK, pipeVars, prev, aggIn, aggOut, fnIn, fnOut, survey, raceVars>>

ProgramsIdle ==
    /\ ppc' = "idle"
    /\ pin' = <<>>
    /\ pidx' = 0
    /\ pwith' = <<>>
    /\ panalyses' = EmptyCache
    /\ pres' = "none"
    /\ pextracts' = EmptyCache

\* texts of survey responses: one naming two programs, one naming one program,
\* one naming none, and a blank one
TwoProgramsText == <<"nexus", "and", "Thrive">>
ProgramResponses ==
    { [id |-> "r1", text |-> TwoProgramsText, question_text |-> "Q", question_id |-> "q1"],
      [id |-> "r2", text |-> <<"NEXUS">>, question_text |-> "Q", question_id |-> "q1"],
      [id |-> "r3", text |-> <<"grants">>, question_text |-> "Q", question_id |-> "q1"],
      [id |-> "r4", text |-> <<>>, question_text |-> "Q", question_id |-> "q1"] }
\* the response lists handed to analyze_all_programs: up to MaxProgramResponses
\* different responses, in any order
ProgramInputs ==
    UNION { { input \in [1..n -> ProgramResponses] :
                \A i, j \in 1..n : i # j => input[i] # input[j] } :
            n \in 1..MaxProgramResponses }

\* a process builds a ProgramAnalyzer (lines 50-64: a logger and the two
\* clients of the analyzer and of its extractor) and calls
\* analyze_all_programs
CallPrograms ==
    /\ top = "none"
    /\ clientOK
    /\ top' = "programs"
    /\ \E input \in ProgramInputs :
          /\ pin' = input
          /\ pextracts' = [id \in { input[i].id : i \in DOMAIN input } |-> 0]
    /\ ppc' = "scan"
    /\ pidx' = 1
    /\ pwith' = <<>>
    /\ panalyses' = EmptyCache
    /\ pres' = "none"
    /\ remoteCalls' = 0
    /\ audit' = client_init(client_init(SessionStart, clientOK), clientOK)
    /\ UNCHANGED <<llmCache, clientVars, featCache, extractVars, progCache, lastExit,
                   aroundPrograms>>

\* analyze_all_programs, lines 374-390: the next response; one that has text
\* and names a program is handed to extract_features
P_Scan ==
    /\ ppc = "scan"
    /\ IF pidx > Len(pin)
       THEN /\ ppc' = "programs"
            /\ pidx' = 1
            /\ UNCHANGED <<extractVars, pextracts>>
       ELSE LET resp == pin[pidx] IN
            IF resp.text # <<>> /\ MentionedPrograms(resp.text) # <<>>
            THEN /\ ExtractStart([response |-> resp.text, question |-> resp.question_text,
                                  response_id |-> resp.id, question_id |-> resp.question_id])
                 /\ pextracts' = [pextracts EXCEPT ![resp.id] = @ + 1]
                 /\ ppc' = "extracting"
                 /\ pidx' = pidx
            ELSE /\ pidx' = pidx + 1
                 /\ ppc' = ppc
                 /\ UNCHANGED <<extractVars, pextracts>>
    /\ UNCHANGED <<llmCache, audit, clientVars, remoteCalls, featCache, progCache, pin,
                   pwith, panalyses, pres, lastExit, top, aroundPrograms>>

\* analyze_all_programs, lines 392-399: the response is kept with its
\* features; what extract_features raised is not caught
P_Extracted ==
    /\ ppc = "extracting"
    /\ epc = "done"
    /\ IF eres.status = "returned"
       THEN /\ pwith' = IF eres.features # NoneVal
                        THEN Append(pwith, [response_id |-> pin[pidx].id,
                                            text |-> pin[pidx].text,
                                            features |-> eres.features,
                                            question_id |-> pin[pidx].question_id,
                                            mentioned_programs |->
                                                MentionedPrograms(pin[pidx].text)])
                        ELSE pwith
            /\ pidx' = pidx + 1
            /\ ppc' = "scan"
            /\ pres' = pres
       ELSE /\ ppc' = "done"
            /\ pres' = "raised"
            /\ UNCHANGED <<pwith, pidx>>
    /\ ExtractIdle
    /\ UNCHANGED <<llmCache, audit, clientVars, remoteCalls, featCache, progCache, pin,
                   panalyses, pextracts, lastExit, top, aroundPrograms>>

\* analyze_all_programs, lines 406-409 and 411-433, with analyze_program,
\* lines 254-271 and 289: a cached analysis is returned as it is; a program
\* no response mentions gives None; else the theme analysis calls
\* generate_response (the client of an analyzer that was built has a client
\* object and program_responses is not empty)
P_Program ==
    /\ ppc = "programs"
    /\ IF pidx > Len(CULTURAL_PROGRAMS)
       THEN /\ ppc' = "done"
            /\ pres' = "returned"
            /\ UNCHANGED <<pidx, panalyses, clientVars>>
       ELSE LET program == CULTURAL_PROGRAMS[pidx]
                program_responses == extract_program_specific_feedback(program, pwith)
            IN /\ pres' = pres
               /\ IF ProgramFile(program) \in DOMAIN progCache
                  THEN /\ panalyses' = (program :> progCache[ProgramFile(program)]) @@ panalyses
                       /\ pidx' = pidx + 1
                       /\ UNCHANGED <<ppc, clientVars>>
                  ELSE IF program_responses = <<>>
                  THEN /\ pidx' = pidx + 1
                       /\ UNCHANGED <<ppc, panalyses, clientVars>>
                  ELSE /\ ClientStart(ThemesRequest(program, program_responses))
                       /\ ppc' = "themes"
                       /\ UNCHANGED <<pidx, panalyses>>
    /\ UNCHANGED <<llmCache, audit, remoteCalls, featCache, extractVars, progCache, pin,
                   pwith, pextracts, lastExit, top, aroundPrograms>>

\* analyze_program_themes, lines 201-210, and analyze_program, lines 292-322:
\* the content is parsed, the feedback is built, cached, logged and kept; a
\* failed call or a content that is not JSON goes to the except clause, whose
\* log_error call decides between returning {} and raising
P_Themes ==
    /\ ppc = "themes"
    /\ cpc = "done"
    /\ LET program == CULTURAL_PROGRAMS[pidx]
           feedback == ProgramFeedbackOf(program,
                           extract_program_specific_feedback(program, pwith))
           parsed == cres.status = "returned" /\ JsonLoads(cres.content)
           logged == IF parsed THEN audit
                     ELSE log_error(audit, KwProgram, "analyze_program_themes", NoContext)
       IN IF parsed \/ LogErrorBinds(KwProgram)
          THEN /\ progCache' = (ProgramFile(program) :> feedback) @@ progCache
               /\ audit' = log_operation(logged, "program_analysis_complete",
                                         [program_name |-> program,
                                          mention_count |-> feedback.mention_count])
               /\ panalyses' = (program :> feedback) @@ panalyses
               /\ pidx' = pidx + 1
               /\ ppc' = "programs"
               /\ pres' = pres
          ELSE /\ audit' = logged
               /\ ppc' = "done"
               /\ pres' = "raised"
               /\ UNCHANGED <<progCache, panalyses, pidx>>
    /\ ClientIdle
    /\ UNCHANGED <<llmCache, remoteCalls, featCache, extractVars, pin, pwith, pextracts,
                   lastExit, top, aroundPrograms>>

\* the process that ran analyze_all_programs ends
ProgramsDone ==
    /\ top = "programs"
    /\ ppc = "done"
    /\ ProgramsIdle
    /\ top' = "none"
    /\ lastExit' = "ended"
    /\ audit' = <<>>
    /\ remoteCalls' = 0
    /\ UNCHANGED <<llmCache, clientVars, featCache, extractVars, progCache, aroundPrograms>>

\* what the remote service answers while the programs are analysed
ProgramAnswers ==
    { [ok |-> FALSE, content |-> NoneContent, usage |-> NoneVal] }
    \cup { [ok |-> TRUE, content |-> [fence |-> "", body |-> b], usage |-> "usage"]
           : b \in {"featA", "notjson"} }

InitPrograms ==
    /\ InitIdle
    /\ clientOK = TRUE
    /\ featCache = EmptyCache
    /\ aggIn = <<>>
    /\ aggOut = NoAgg
    /\ fnIn = NoFn
    /\ fnOut = NoFn

NextPrograms ==
    \/ GR_Lookup
    \/ GR_Remote(ProgramAnswers)
    \/ GR_Save
    \/ E_Lookup
    \/ E_Miss
    \/ E_Finish
    \/ CallPrograms
    \/ P_Scan
    \/ P_Extracted
    \/ P_Program
    \/ P_Themes
    \/ ProgramsDone

SpecPrograms == InitPrograms /\ [][NextPrograms]_vars

\* the programs the response at index i of pin names
ProgramsNamed(i) == { CULTURAL_PROGRAMS[k] : k \in { n \in DOMAIN CULTURAL_PROGRAMS :
                                                       PatternSearch(CULTURAL_PROGRAMS[n], pin[i].text) } }

\* the responses of pin that name the program
Mentions(program) == { i \in DOMAIN pin : PatternSearch(program, pin[i].text) }

\* C21: in analyze_all_programs a response that names two programs is handed
\* to extract_features exactly once, and when analyze_all_programs has ended
\* it is counted in the mention_count and in the sentiment and stakeholder
\* aggregates of both programs
C21_ExtractedOnceCountedBoth ==
    \A i \in DOMAIN pin :
       Cardinality(ProgramsNamed(i)) >= 2 =>
          /\ pextracts[pin[i].id] <= 1
          /\ ppc = "done" =>
                /\ pextracts[pin[i].id] = 1
                /\ \A program \in ProgramsNamed(i) :
                      /\ program \in DOMAIN panalyses
                      /\ panalyses[program].mention_count = Cardinality(Mentions(program))
                      /\ SumDict(panalyses[program].sentiment_summary,
                                 DOMAIN panalyses[program].sentiment_summary)
                            = Cardinality(Mentions(program))
                      /\ SumDict(panalyses[program].demographic_reach,
                                 DOMAIN panalyses[program].demographic_reach)
                            = Cardinality(Mentions(program))

(***************************************************************************)
(* Callers of analyze_question: each process loads the survey file, which  *)
(* may have changed since the process before it, and analyses one question *)
(***************************************************************************)
\* what the survey file may hold when a process loads it
Surveys ==
    { AllResponses,
      <<AllResponses[1], AllResponses[3]>>,
      <<AllResponses[2], AllResponses[3]>> }

\* a process loads the survey (run_deep_analysis, lines 113-116), builds a
\* QuestionAnalyzer and calls analyze_question for one question
CallAnalyze ==
    /\ top = "none"
    /\ clientOK
    /\ top' = "analyze"
    /\ survey' \in Surveys
    /\ \E q \in DOMAIN Questions : AnalyzeStart(q)
    /\ remoteCalls' = 0
    /\ audit' = client_init(client_init(SessionStart, clientOK), clientOK)
    /\ UNCHANGED <<clientOK, llmCache, clientVars, featCache, extractVars, qCache,
                   synCache, synthVars, driverVars, lastExit, prev, aggIn, aggOut,
                   fnIn, fnOut, programVars, raceVars>>

\* the process that called analyze_question ends
AnalyzeDone ==
    /\ top = "analyze"
    /\ apc = "done"
    /\ AnalyzeIdle
    /\ top' = "none"
    /\ lastExit' = "ended"
    /\ audit' = <<>>
    /\ remoteCalls' = 0
    /\ UNCHANGED <<clientOK, llmCache, clientVars, featCache, extractVars, qCache,
                   synCache, synthVars, driverVars, prev, pureVars>>

\* what the remote service answers while questions are analysed
ReanalyzeAnswers ==
    { [ok |-> FALSE, content |-> NoneContent, usage |-> NoneVal] }
    \cup { [ok |-> TRUE, content |-> [fence |-> "", body |-> b], usage |-> "usage"]
           : b \in {"featA", "featB", "insights"} }

InitReanalyze ==
    /\ InitIdle
    /\ clientOK = TRUE
    /\ featCache = EmptyCache
    /\ aggIn = <<>>
    /\ aggOut = NoAgg
    /\ fnIn = NoFn
    /\ fnOut = NoFn

NextReanalyze ==
    \/ GR_Lookup
    \/ GR_Remote(ReanalyzeAnswers)
    \/ GR_Save
    \/ E_Lookup
    \/ E_Miss
    \/ E_Finish
    \/ A_Lookup
    \/ A_Extract
    \/ A_Extracted
    \/ A_Aggregate
    \/ A_Insights
    \/ CallAnalyze
    \/ AnalyzeDone

SpecReanalyze == InitReanalyze /\ [][NextReanalyze]_vars

\* the feature records the feature cache holds for the responses of the
\* question in the survey, in the order of the survey
CurrentFeatures(q) ==
    LET slice == load_question_responses(Questions[q].id)
        files == [i \in DOMAIN slice |->
                    FeatureFile(ExtractArgs(slice[i], Questions[q].text))]
        cached == SelectSeq(files, LAMBDA f : f \in DOMAIN featCache /\ featCache[f].valid)
    IN [i \in DOMAIN cached |-> featCache[cached[i]].features]

\* the dominant themes computed from the current feature records
ThemesNow(q) ==
    Prefix(aggregate_themes(FeatureRecords(CurrentFeatures(q))).themes, 20)

\* analyze_question has returned an analysis
AnalysisReturned ==
    /\ apc = "done"
    /\ ares.status = "returned"
    /\ ares.analysis # NoAnalysis

\* C22: the themes (count, percentage) analyze_question returns for a question
\* are always those computed from the current feature records of the
\* question: a call made after the records changed recomputes them
C22_ThemesReflectFeatures ==
    AnalysisReturned => ares.analysis.dominant_themes = ThemesNow(areq)

\* C22 as the code has it: the themes are computed from the current feature
\* records when no analysis of the question is cached; when one is cached it
\* is returned as it is stored, whatever became of the feature records
C22_RecomputedUnlessCached ==
    AnalysisReturned =>
       IF ahit
       THEN ares.analysis = qCache[Questions[areq].id]
       ELSE /\ ares.analysis.dominant_themes = ThemesNow(areq)
            /\ ares.analysis.response_count = Len(CurrentFeatures(areq))

\* analyze_question was called again after the feature records of the
\* question changed, and returned the cached themes of the earlier records
C22_Witness ==
    /\ AnalysisReturned
    /\ ahit
    /\ Len(ares.analysis.dominant_themes) = 2
    /\ ares.analysis.dominant_themes # ThemesNow(areq)

(***************************************************************************)
(* Two processes call generate_response with the same key at the same      *)
(* time.  The cache is a directory both share; nothing in the code locks a *)
(* cache file, and a file is written in place: open(cache_file, 'w')       *)
(* empties it, json.dump and the close write the document from the start   *)
(* of the file.  Each process has its own ledger, which is not followed.   *)
(***************************************************************************)
Writers == {1, 2}

\* a file holding the whole JSON document of a response_data
Whole(content) == [state |-> "whole", content |-> content]
\* a file opened for writing and not yet written
Truncated == [state |-> "truncated"]
\* a file holding the bytes of a shorter document followed by what is left of
\* a longer one
Garbled == [state |-> "garbled"]

\* the file after a process that had opened it writes its document and
\* closes: the document replaces what another process wrote in the meantime
\* when it is at least as long, and leaves the end of the other document
\* behind it when it is shorter (the lengths of two different documents are
\* not known)
Overlay(file, content) ==
    IF file = Truncated \/ file = Whole(content)
    THEN {Whole(content)}
    ELSE {Whole(content), Garbled}

\* contents the remote service may give for the one prompt
RacePayloads == { [fence |-> "", body |-> b] : b \in FeatureBodies }

\* what a step of the two processes leaves alone
beyondRace == <<clientOK, llmCache, audit, clientVars, remoteCalls, featCache,
                extractVars, pipeVars, lastExit, prev, aggIn, aggOut, fnIn, fnOut,
                programVars, survey>>

\* the two processes enter generate_response with the same prompt,
\* instructions, temperature and model
RaceStart ==
    /\ top = "none"
    /\ top' = "race"
    /\ rpc' = [w \in Writers |-> "lookup"]
    /\ rattempt' = [w \in Writers |-> 1]
    /\ UNCHANGED <<raceFile, rgot, rret, beyondRace>>

\* generate_response, lines 256-266, with _load_from_cache: an existing file
\* is parsed and its content returned; json.load of a file that holds no
\* whole document raises outside the try block, into the retry decorator
R_Lookup(w) ==
    /\ rpc[w] = "lookup"
    /\ IF raceFile.state = "absent"
       THEN /\ rpc' = [rpc EXCEPT ![w] = "remote"]
            /\ UNCHANGED <<rret, rattempt>>
       ELSE IF raceFile.state = "whole"
       THEN /\ rpc' = [rpc EXCEPT ![w] = "done"]
            /\ rret' = [rret EXCEPT ![w] = raceFile.content]
            /\ UNCHANGED rattempt
       ELSE IF rattempt[w] < LlmRetryAttempts
       THEN /\ rattempt' = [rattempt EXCEPT ![w] = @ + 1]
            /\ UNCHANGED <<rpc, rret>>
       ELSE /\ rpc' = [rpc EXCEPT ![w] = "raised"]
            /\ UNCHANGED <<rret, rattempt>>
    /\ UNCHANGED <<raceFile, rgot, top, beyondRace>>

\* generate_response, lines 272-332: the remote call of the process returns
\* a content
R_Remote(w) ==
    /\ rpc[w] = "remote"
    /\ \E content \in RacePayloads : rgot' = [rgot EXCEPT ![w] = content]
    /\ rpc' = [rpc EXCEPT ![w] = "open"]
    /\ UNCHANGED <<raceFile, rattempt, rret, top, beyondRace>>

\* _save_to_cache, line 200: open(cache_file, 'w') creates or empties the file
R_Open(w) ==
    /\ rpc[w] = "open"
    /\ raceFile' = Truncated
    /\ rpc' = [rpc EXCEPT ![w] = "dump"]
    /\ UNCHANGED <<rgot, rattempt, rret, top, beyondRace>>

\* _save_to_cache, lines 201-207, and generate_response, lines 337-355: the
\* document is written and the file closed, the call returns the content it
\* received
R_Dump(w) ==
    /\ rpc[w] = "dump"
    /\ raceFile' \in Overlay(raceFile, rgot[w])
    /\ rpc' = [rpc EXCEPT ![w] = "done"]
    /\ rret' = [rret EXCEPT ![w] = rgot[w]]
    /\ UNCHANGED <<rgot, rattempt, top, beyondRace>>

InitRace ==
    /\ InitIdle
    /\ clientOK = TRUE
    /\ featCache = EmptyCache
    /\ aggIn = <<>>
    /\ aggOut = NoAgg
    /\ fnIn = NoFn
    /\ fnOut = NoFn

NextRace ==
    \/ RaceStart
    \/ \E w \in Writers : R_Lookup(w)
    \/ \E w \in Writers : R_Remote(w)
    \/ \E w \in Writers : R_Open(w)
    \/ \E w \in Writers : R_Dump(w)

SpecRace == InitRace /\ [][NextRace]_vars

\* both processes have left generate_response
RaceOver == \A w \in Writers : rpc[w] \in {"done", "raised"}

\* the processes that wrote the cache file
Wrote == { w \in Writers : rpc[w] = "done" /\ rgot[w] # NoneContent }

\* C23: a race of two writers for one cache key is benign: whatever the
\* interleaving of the two read-then-write calls, the writers store the same
\* payload, so the file a later reader finds holds that payload whichever
\* write landed last
C23_RaceBenign ==
    RaceOver =>
       /\ \A v, w \in Wrote : rgot[v] = rgot[w]
       /\ \A w \in Wrote : raceFile = Whole(rgot[w])

(***************************************************************************)
(* The survey of six questions with a hundred responses each, in which     *)
(* forty responses of every question name "funding_shortage" at high       *)
(* urgency: what the other sixty responses hold, and whether one of the    *)
(* forty names the theme twice, is left open                               *)
(***************************************************************************)
RECURSIVE Repeat(_, _)
\* [x] * n
Repeat(x, n) == IF n = 0 THEN <<>> ELSE <<x>> \o Repeat(x, n - 1)

\* the hundred feature records of a question: the forty that name the theme,
\* then sixty that name no theme ("alone") or that all name another theme
\* ("rival"); in "twice" the first of the forty lists the theme two times
SurveyProfiles == {"alone", "rival", "twice"}
SurveyFeatures(profile) ==
    LET named == FeaturesWith(<<"funding_shortage">>, "high")
        twice == FeaturesWith(<<"funding_shortage", "funding_shortage">>, "high")
    IN CASE profile = "alone" ->
              Repeat(named, 40) \o Repeat(FeaturesWith(<<>>, "low"), 60)
         [] profile = "rival" ->
              Repeat(named, 40) \o Repeat(FeaturesWith(<<"venues">>, "low"), 60)
         [] profile = "twice" ->
              <<twice>> \o Repeat(named, 39) \o Repeat(FeaturesWith(<<>>, "low"), 60)

\* the analysis of question i computed from the feature records of a profile
SurveyAnalyses ==
    [i \in 1..6, profile \in SurveyProfiles |->
        AnalysisOfFeatures(i, SurveyFeatures(profile))]

\* the analyses of the six questions, computed from their feature records
SurveyInputs ==
    { [op |-> "synthesize",
       features |-> [i \in 1..6 |-> SurveyFeatures(c[i])],
       analyses |-> [i \in 1..6 |-> SurveyAnalyses[i, c[i]]]] :
         c \in [1..6 -> SurveyProfiles] }

InitSurvey ==
    /\ InitIdle
    /\ clientOK = TRUE
    /\ featCache = EmptyCache
    /\ aggIn = <<>>
    /\ aggOut = NoAgg
    /\ fnIn \in SurveyInputs
    /\ fnOut = NoFn

NextSurvey == Synthesize

SpecSurvey == InitSurvey /\ [][NextSurvey]_vars

\* C24: for six questions of a hundred responses each, forty of which name
\* "funding_shortage" at high urgency, the synthesis lists the theme first
\* among the recurring themes, with question_count 6 and 240 total mentions,
\* and lists it among the systemic issues
C24_EndToEnd ==
    fnOut.op = "synthesis" =>
       /\ fnOut.recurring_themes # <<>>
       /\ fnOut.recurring_themes[1].theme = "funding shortage"
       /\ fnOut.recurring_themes[1].question_count = 6
       /\ fnOut.recurring_themes[1].total_mentions = 240
       /\ \E j \in DOMAIN fnOut.systemic_issues :
             fnOut.systemic_issues[j].theme = "funding shortage"

(***************************************************************************)
(* identify_contradictions_and_consensus on its own                        *)
(***************************************************************************)
\* sentiment counts (positive, negative, neutral) of a theme: shares of
\* exactly 30% and 30%, just above both, exactly 70%, above 70% on either
\* side, a split of nine mentions, and 31% against 30%
SentimentSplits ==
    { <<3, 3, 4>>, <<4, 4, 2>>, <<7, 0, 3>>, <<8, 1, 1>>, <<2, 15, 3>>, <<4, 4, 1>>,
      <<31, 30, 39>>, <<0, 7, 3>> }

\* the QuestionTheme at place i of a list, with the given sentiment counts
SplitTheme(i, split) ==
    [theme |-> "t" \o ToString(i),
     count |-> split[1] + split[2] + split[3],
     sentiment_distribution |->
         [m \in {x \in {"positive", "negative", "neutral"} :
                   \/ (x = "positive" /\ split[1] > 0)
                   \/ (x = "negative" /\ split[2] > 0)
                   \/ (x = "neutral" /\ split[3] > 0)} |->
             IF m = "positive" THEN split[1]
             ELSE IF m = "negative" THEN split[2] ELSE split[3]]]

\* theme lists: up to MaxThemes themes of any split, and lists whose eleventh
\* theme is of any split behind ten themes of forty neutral mentions
ThemeLists ==
    { [i \in DOMAIN c |-> SplitTheme(i, c[i])] :
        c \in UNION { [1..n -> SentimentSplits] : n \in 0..MaxThemes } }
    \cup
    { [i \in 1..11 |-> SplitTheme(i, IF i = 11 THEN last
                                     ELSE IF i = 10 THEN tenth ELSE <<0, 0, 40>>)] :
        last \in SentimentSplits, tenth \in {<<4, 4, 2>>, <<0, 0, 40>>} }

\* analyze_question, line 356: the two lists of the call
IdentifyLists ==
    /\ fnIn.op = "identify"
    /\ fnOut = NoFn
    /\ fnOut' = [op |-> "lists",
                 contradictions |-> Contradictions(Prefix(fnIn.themes, 10)),
                 consensus_points |-> Consensus(Prefix(fnIn.themes, 10))]
    /\ UNCHANGED beyondFn

InitConsensus ==
    /\ InitIdle
    /\ clientOK = TRUE
    /\ featCache = EmptyCache
    /\ aggIn = <<>>
    /\ aggOut = NoAgg
    /\ fnIn \in { [op |-> "identify", themes |-> t] : t \in ThemeLists }
    /\ fnOut = NoFn

NextConsensus == IdentifyLists

SpecConsensus == InitConsensus /\ [][NextConsensus]_vars

\* the names a list of the output holds
Listed(list) == { list[k] : k \in DOMAIN list }

\* the number of mentions of the theme at place i that carry the sentiment
MentionsWith(i, sentiment) == GetOr0(fnIn.themes[i].sentiment_distribution, sentiment)

\* the theme at place i is examined: it is among the first ten and has at
\* least ten mentions
Examined(i) ==
    /\ i <= 10
    /\ SumDict(fnIn.themes[i].sentiment_distribution,
               DOMAIN fnIn.themes[i].sentiment_distribution) >= 10

\* the share of the sentiment among the mentions of the theme at place i
\* is strictly above pct percent
ShareAbove(i, sentiment, pct) ==
    100 * MentionsWith(i, sentiment)
       > pct * SumDict(fnIn.themes[i].sentiment_distribution,
                       DOMAIN fnIn.themes[i].sentiment_distribution)

\* C25: only the first ten themes with at least ten mentions are examined;
\* an examined theme is a contradiction exactly when its positive and its
\* negative share are both strictly above 30%, a consensus point exactly when
\* one of the two shares is strictly above 70%, and never both
C25_ContradictionConsensus ==
    fnOut.op = "lists" =>
       \A i \in DOMAIN fnIn.themes :
          /\ fnIn.themes[i].theme \in Listed(fnOut.contradictions)
                <=> /\ Examined(i)
                    /\ ShareAbove(i, "positive", 30)
                    /\ ShareAbove(i, "negative", 30)
          /\ fnIn.themes[i].theme \in Listed(fnOut.consensus_points)
                <=> /\ Examined(i)
                    /\ ShareAbove(i, "positive", 70) \/ ShareAbove(i, "negative", 70)
          /\ ~ /\ fnIn.themes[i].theme \in Listed(fnOut.contradictions)
               /\ fnIn.themes[i].theme \in Listed(fnOut.consensus_points)

\* themes split at exactly 30% to 30% and at exactly 70% are in neither list
C25_Witness ==
    /\ fnOut.op = "lists"
    /\ Len(fnIn.themes) = 2
    /\ MentionsWith(1, "positive") = 3 /\ MentionsWith(1, "negative") = 3
    /\ MentionsWith(2, "positive") = 7
    /\ Examined(1) /\ Examined(2)
    /\ fnOut.contradictions = <<>>
    /\ fnOut.consensus_points = <<>>

(***************************************************************************)
(* analyze_sentiment_patterns on its own                                   *)
(***************************************************************************)
\* line 229 and line 241: count / total * 100
Percent(count, total) == FloatTimes(TrueDiv(count, total), 100)

\* the entries of the sorted list up to an entry's place, by difference,
\* largest first, equal differences in the order of arrival
RECURSIVE InsertByDifference(_, _)
InsertByDifference(sorted, entry) ==
    IF sorted = <<>> THEN <<entry>>
    ELSE IF FloatGreater(entry.difference, Head(sorted).difference)
         THEN <<entry>> \o sorted
         ELSE <<Head(sorted)>> \o InsertByDifference(Tail(sorted), entry)

RECURSIVE SortedByDifference(_)
SortedByDifference(entries) ==
    IF entries = <<>> THEN <<>>
    ELSE InsertByDifference(SortedByDifference(Front(entries)), entries[Len(entries)])

\* lines 223-225: the count of one sentiment over all analyses
RECURSIVE SentimentCount(_, _)
SentimentCount(analyses, sentiment) ==
    IF analyses = <<>> THEN 0
    ELSE GetOr0(Head(analyses).sentiment_distribution, sentiment)
         + SentimentCount(Tail(analyses), sentiment)

\* lines 216-225: the counts of every sentiment the analyses name
OverallSentiment(analyses) ==
    [s \in UNION { DOMAIN analyses[i].sentiment_distribution : i \in DOMAIN analyses } |->
       SentimentCount(analyses, s)]

\* lines 236-251: the outliers in the order of the analyses
RECURSIVE OutlierQuestions(_, _)
OutlierQuestions(analyses, overall_negative_pct) ==
    IF analyses = <<>> THEN <<>>
    ELSE LET analysis == Head(analyses)
             d == analysis.sentiment_distribution
             question_total == SumDict(d, DOMAIN d)
             question_negative_pct == Percent(GetOr0(d, "negative"), question_total)
             others == OutlierQuestions(Tail(analyses), overall_negative_pct)
         IN  IF question_total > 0
                /\ FloatGreater(question_negative_pct,
                                FloatPlus(overall_negative_pct, FloatOf(20)))
             THEN <<[question_id |-> analysis.question_id,
                     question_text |-> analysis.question_text \o "...",
                     negative_percentage |-> question_negative_pct,
                     difference |-> FloatMinus(question_negative_pct, overall_negative_pct)]>>
                  \o others
             ELSE others

analyze_sentiment_patterns(analyses) ==
    LET overall_sentiment == OverallSentiment(analyses)
        total_responses == SumDict(overall_sentiment, DOMAIN overall_sentiment)
        sentiment_percentages ==
            [s \in DOMAIN overall_sentiment |->
               IF total_responses > 0 THEN Percent(overall_sentiment[s], total_responses)
               ELSE FloatZero]
        overall_negative_pct ==
            IF "negative" \in DOMAIN sentiment_percentages
            THEN sentiment_percentages["negative"] ELSE FloatZero
    IN  [overall_sentiment |-> sentiment_percentages,
         total_responses_analyzed |-> total_responses,
         outlier_questions |->
             SortedByDifference(OutlierQuestions(analyses, overall_negative_pct))]

\* (negative, total) counts of a question's sentiment distribution: five of
\* six and fourteen of twenty-four (pooled 19 of 30, twenty points below the
\* first), five of ten and four of twenty (pooled 9 of 30, twenty points
\* below), nine and one of ten, and a question without records
NegativeCounts == { <<5, 6>>, <<14, 24>>, <<5, 10>>, <<4, 20>>, <<9, 10>>, <<1, 10>>, <<0, 0>> }

\* the QuestionAnalysis of question i as far as the sentiment patterns read it
SentimentAnalysis(i, counts) ==
    [question_id |-> SynthQuestion(i).id,
     question_text |-> SynthQuestion(i).text,
     sentiment_distribution |->
         [s \in {x \in {"negative", "neutral"} :
                   \/ (x = "negative" /\ counts[1] > 0)
                   \/ (x = "neutral" /\ counts[2] - counts[1] > 0)} |->
             IF s = "negative" THEN counts[1] ELSE counts[2] - counts[1]]]

SentimentInputs ==
    { [op |-> "sentiment", analyses |-> [i \in DOMAIN c |-> SentimentAnalysis(i, c[i])]] :
        c \in UNION { [1..n -> NegativeCounts] : n \in 0..MaxSentimentQuestions } }

\* synthesize_insights, line 373
SentimentPatterns ==
    /\ fnIn.op = "sentiment"
    /\ fnOut = NoFn
    /\ fnOut' = [op |-> "patterns", patterns |-> analyze_sentiment_patterns(fnIn.analyses)]
    /\ UNCHANGED beyondFn

InitSentiment ==
    /\ InitIdle
    /\ clientOK = TRUE
    /\ featCache = EmptyCache
    /\ aggIn = <<>>
    /\ aggOut = NoAgg
    /\ fnIn \in SentimentInputs
    /\ fnOut = NoFn

NextSentiment == SentimentPatterns

SpecSentiment == InitSentiment /\ [][NextSentiment]_vars

\* the negative and the total count of the analysis at place i
NegativeOf(i) == GetOr0(fnIn.analyses[i].sentiment_distribution, "negative")

TotalOf(i) ==
    SumDict(fnIn.analyses[i].sentiment_distribution,
            DOMAIN fnIn.analyses[i].sentiment_distribution)

\* the negative and the total count pooled over all analyses
PooledNegative == SentimentCount(fnIn.analyses, "negative")

PooledTotal == SumDict(OverallSentiment(fnIn.analyses), DOMAIN OverallSentiment(fnIn.analyses))

\* the negative percentage of the analysis at place i exceeds the pooled one
\* by more than 20 points: n/t - N/T > 1/5
ExceedsBy20(i) ==
    /\ TotalOf(i) > 0
    /\ 5 * (NegativeOf(i) * PooledTotal - PooledNegative * TotalOf(i))
          > TotalOf(i) * PooledTotal

\* the difference of the analysis at place i is at least that at place j:
\* n_i/t_i >= n_j/t_j
DifferenceAtLeast(i, j) == NegativeOf(i) * TotalOf(j) >= NegativeOf(j) * TotalOf(i)

\* the place in the analyses of the k-th outlier
PlaceOf(k) ==
    CHOOSE i \in DOMAIN fnIn.analyses :
       fnIn.analyses[i].question_id = fnOut.patterns.outlier_questions[k].question_id

\* C26: a question is listed as an outlier exactly when its negative
\* percentage exceeds the negative percentage pooled over all analysed
\* questions by more than 20 points, and the list is ordered by that
\* difference, largest first
C26_OutliersExactly ==
    fnOut.op = "patterns" =>
       LET outliers == fnOut.patterns.outlier_questions
       IN  /\ \A i \in DOMAIN fnIn.analyses :
                (\E k \in DOMAIN outliers :
                    outliers[k].question_id = fnIn.analyses[i].question_id)
                <=> ExceedsBy20(i)
           /\ \A k \in DOMAIN outliers : \A l \in DOMAIN outliers :
                k < l => DifferenceAtLeast(PlaceOf(k), PlaceOf(l))

(***************************************************************************)
(* synthesize_insights and its cache file                                  *)
(***************************************************************************)
\* the operations the ledger of the session names
Logged == { audit[k].operation : k \in DOMAIN audit }

\* synthesize_insights goes on from its cache check
SynthesisStep == spc = "lookup" /\ spc' \in {"insights", "done"}

\* a call that finds the cache file returns its content and does nothing else
CachedReturned ==
    (SynthesisStep /\ SynthesisFile \in DOMAIN synCache) =>
        /\ spc' = "done"
        /\ sres' = SReturned(synCache[SynthesisFile])
        /\ synCache' = synCache
        /\ audit' = audit
        /\ cpc' = "idle" /\ creq' = creq
        /\ remoteCalls' = remoteCalls
        /\ llmCache' = llmCache

\* the cache file is written by the step that ends the fifth sub-step: the
\* answer of the client call has arrived, or no call is made for want of a
\* client or of analyses; the same step logs completion and returns what
\* it wrote
WrittenLast ==
    synCache' # synCache =>
        /\ SynthesisFile \notin DOMAIN synCache
        /\ \/ spc = "insights" /\ cpc = "done"
           \/ spc = "lookup" /\ (~clientOK \/ danalyses = <<>>)
        /\ spc' = "done"
        /\ sres'.status = "returned"
        /\ synCache' = (SynthesisFile :> sres'.synthesis) @@ synCache
        /\ "identify_recurring_themes" \in { audit'[k].operation : k \in DOMAIN audit' }
        /\ audit'[Len(audit')].operation = "cross_question_synthesis_complete"

\* C27: when a cached synthesis exists, synthesize_insights returns it, runs
\* none of its sub-steps (no recurring-theme entry in the ledger, no client
\* call for strategic insights), writes no cache file and appends no
\* completion entry; the synthesis is written to the cache only after all
\* five sub-steps have finished
C27_CachedSynthesis == [][CachedReturned /\ WrittenLast]_vars

\* a run of the pipeline has been handed the cached synthesis: its ledger
\* names neither the recurring-theme step nor the completion
C27_Witness ==
    /\ top = "pipeline"
    /\ spc = "done"
    /\ SynthesisFile \in DOMAIN synCache
    /\ sres = SReturned(synCache[SynthesisFile])
    /\ Len(danalyses) = Len(Questions)
    /\ "identify_recurring_themes" \notin Logged
    /\ "cross_question_synthesis_complete" \notin Logged
    /\ cpc = "idle"

(***************************************************************************)
(* aggregate_themes over records that repeat a theme                       *)
(***************************************************************************)
\* C28: for every list of feature records, records naming one theme more
\* than once included, aggregate_themes returns without raising and every
\* theme it reports has a count of at most the number of records and a
\* percentage of at most 100
C28_CountWithinRecords ==
    top = "aggregated" =>
        /\ ~aggOut.raised
        /\ \A i \in DOMAIN aggOut.themes :
              /\ aggOut.themes[i].count <= Len(aggIn)
              /\ aggOut.themes[i].percentage.num
                    <= 100 * aggOut.themes[i].percentage.den

(***************************************************************************)
(* The confidence of a systemic issue                                      *)
(***************************************************************************)
\* C29: every systemic issue has a confidence of exactly 0.9, whatever its
\* mean urgency
C29_ConfidenceNineTenths ==
    fnOut.op = "synthesis" =>
        \A j \in DOMAIN fnOut.systemic_issues :
            fnOut.systemic_issues[j].confidence = TrueDiv(9, 10)

(***************************************************************************)
(* _normalize_theme on the characters of a label                           *)
(***************************************************************************)
\* the characters a label is made of: a capital and a small letter, a
\* blank, a hyphen and an underscore
LabelChars == {"A", "a", " ", "-", "_"}

\* str.lower
Lower(text) == [i \in DOMAIN text |-> IF text[i] = "A" THEN "a" ELSE text[i]]

\* str.strip: the blanks at both ends are dropped
Strip(text) ==
    IF \A i \in DOMAIN text : text[i] = " " THEN <<>>
    ELSE SubSeq(text,
                CHOOSE i \in DOMAIN text :
                    text[i] # " " /\ \A j \in 1..(i - 1) : text[j] = " ",
                CHOOSE i \in DOMAIN text :
                    text[i] # " " /\ \A j \in (i + 1)..Len(text) : text[j] = " ")

\* str.replace of one character by another
Replace(text, old, new) == [i \in DOMAIN text |-> IF text[i] = old THEN new ELSE text[i]]

\* line 110: theme.lower().strip().replace('-', ' ').replace('_', ' ')
normalize_theme_chars(theme) ==
    Replace(Replace(Strip(Lower(theme)), "-", " "), "_", " ")

\* lines 60-80 for analyses that hold one theme each, the i-th question
\* holding the i-th label: the keys under which at least two questions meet
RecurringKeys(labels) ==
    { normalize_theme_chars(labels[i]) : i \in
        { k \in DOMAIN labels :
            Cardinality({ j \in DOMAIN labels :
                            normalize_theme_chars(labels[j])
                               = normalize_theme_chars(labels[k]) }) >= 2 } }

\* the labels of at most MaxLabelLen characters
Labels == UNION { [1..n -> LabelChars] : n \in 0..MaxLabelLen }

\* the label another question holds
OtherLabels == { <<"a">>, <<" ", "a">>, <<"a", "-">>, <<"_", "a">> }

\* identify_recurring_themes, lines 65-67 and 78-80: the keys of the labels
\* of two questions, the keys of the keys, and the recurring keys
NormalizeLabels ==
    /\ fnIn.op = "normalize"
    /\ fnOut = NoFn
    /\ fnOut' = [op |-> "normalized",
                 keys |-> [i \in DOMAIN fnIn.labels |->
                             normalize_theme_chars(fnIn.labels[i])],
                 again |-> [i \in DOMAIN fnIn.labels |->
                              normalize_theme_chars(normalize_theme_chars(fnIn.labels[i]))],
                 recurring |-> RecurringKeys(fnIn.labels)]
    /\ UNCHANGED beyondFn

InitNormalize ==
    /\ InitIdle
    /\ clientOK = TRUE
    /\ featCache = EmptyCache
    /\ aggIn = <<>>
    /\ aggOut = NoAgg
    /\ fnIn \in { [op |-> "normalize", labels |-> <<a, b>>] : a \in Labels, b \in OtherLabels }
    /\ fnOut = NoFn

NextNormalize == NormalizeLabels

SpecNormalize == InitNormalize /\ [][NextNormalize]_vars

\* C30: _normalize_theme is idempotent (normalising a key gives the key), and
\* labels that normalise to the same key after one pass are merged by the
\* recurring-theme detection
C30_NormalizeIdempotent ==
    fnOut.op = "normalized" =>
        /\ \A i \in DOMAIN fnOut.keys : fnOut.again[i] = fnOut.keys[i]
        /\ \A i \in DOMAIN fnOut.keys : \A j \in DOMAIN fnOut.keys :
              (i # j /\ fnOut.keys[i] = fnOut.keys[j]) => fnOut.keys[i] \in fnOut.recurring

====
